---- MODULE Spec2Model ----
(***************************************************************************)
(* Model of the metric routines of the magics analysis scripts:            *)
(*   scripts/utils.py                      vector projection, angle test   *)
(*   scripts/perpendicular-path-deviation.py  slope projection, RMSE       *)
(*   scripts/analyse-junction-scenario.py  throughput, junction batch      *)
(*   scripts/analyse-circle-scenario.py    circle batch                    *)
(*   scripts/ldj.py                        log dimensionless jerk          *)
(* Every routine is a small state machine over its local variables; each   *)
(* routine has a specification of its own (SpecProj, SpecDev, ...) whose   *)
(* Init draws the routine's inputs and parks the other routines' variables.*)
(***************************************************************************)
EXTENDS Integers, Sequences, FiniteSets, TLC

(***************************************************************************)
(* float64 arithmetic, evaluated exactly.  A number is n/d in lowest terms *)
(* with d > 0; d = 0 encodes the non-finite values numpy produces instead  *)
(* of raising: 0/0 is nan, 1/0 is +inf, -1/0 is -inf.  Rounding is not     *)
(* modelled.                                                               *)
(***************************************************************************)
Abs(x) == IF x < 0 THEN -x ELSE x

Sign(x) == IF x > 0 THEN 1 ELSE IF x < 0 THEN -1 ELSE 0

RECURSIVE Gcd(_, _)
Gcd(a, b) == IF b = 0 THEN a ELSE Gcd(b, a % b)

Rat(n, d) ==
    IF d = 0 THEN [n |-> Sign(n), d |-> 0]
    ELSE LET g == Gcd(Abs(n), Abs(d))
         IN  [n |-> Sign(d) * (n \div g), d |-> Abs(d) \div g]

Num(k) == [n |-> k, d |-> 1]

NaN == [n |-> 0, d |-> 0]

PosInf == [n |-> 1, d |-> 0]

NegInf == [n |-> -1, d |-> 0]

IsNaN(x) == x.d = 0 /\ x.n = 0

IsInf(x) == x.d = 0 /\ x.n # 0

IsFinite(x) == x.d # 0

FNeg(x) == [n |-> -x.n, d |-> x.d]

FAdd(x, y) ==
    IF IsNaN(x) \/ IsNaN(y) THEN NaN
    ELSE IF IsInf(x) /\ IsInf(y) THEN (IF x.n = y.n THEN x ELSE NaN)
    ELSE IF IsInf(x) THEN x
    ELSE IF IsInf(y) THEN y
    ELSE LET g == Gcd(x.d, y.d)
         IN  Rat(x.n * (y.d \div g) + y.n * (x.d \div g), (x.d \div g) * y.d)

FSub(x, y) == FAdd(x, FNeg(y))

FMul(x, y) ==
    IF IsNaN(x) \/ IsNaN(y) THEN NaN
    ELSE IF IsInf(x) \/ IsInf(y)
         THEN (IF x.n = 0 \/ y.n = 0 THEN NaN
               ELSE [n |-> Sign(x.n) * Sign(y.n), d |-> 0])
    ELSE LET g1 == Gcd(Abs(x.n), y.d)
             g2 == Gcd(Abs(y.n), x.d)
         IN  Rat((x.n \div g1) * (y.n \div g2), (x.d \div g2) * (y.d \div g1))

\* numpy's true division: a zero divisor gives nan or +-inf with a warning.
FDiv(x, y) ==
    IF IsNaN(x) \/ IsNaN(y) THEN NaN
    ELSE IF IsInf(y) THEN (IF IsInf(x) THEN NaN ELSE Num(0))
    ELSE IF y.n = 0 THEN (IF x.n = 0 THEN NaN ELSE [n |-> Sign(x.n), d |-> 0])
    ELSE FMul(x, Rat(y.d, y.n))

\* x < y; every comparison with nan is false.
FLt(x, y) ==
    IF IsNaN(x) \/ IsNaN(y) THEN FALSE
    ELSE IF IsInf(x) /\ IsInf(y) THEN x.n < y.n
    ELSE IF IsInf(x) THEN x.n < 0
    ELSE IF IsInf(y) THEN y.n > 0
    ELSE LET g == Gcd(x.d, y.d)
         IN  x.n * (y.d \div g) < y.n * (x.d \div g)

FGt(x, y) == FLt(y, x)

FLe(x, y) == ~IsNaN(x) /\ ~IsNaN(y) /\ ~FLt(y, x)

\* x == y: nan equals nothing, itself included.
FEq(x, y) == ~IsNaN(x) /\ ~IsNaN(y) /\ x = y

(***************************************************************************)
(* 2-vectors <<x, y>> of numbers.                                          *)
(***************************************************************************)
Vec(p) == <<Num(p[1]), Num(p[2])>>

VSub(u, v) == <<FSub(u[1], v[1]), FSub(u[2], v[2])>>

VAdd(u, v) == <<FAdd(u[1], v[1]), FAdd(u[2], v[2])>>

VScale(t, v) == <<FMul(t, v[1]), FMul(t, v[2])>>

Dot(u, v) == FAdd(FMul(u[1], v[1]), FMul(u[2], v[2]))

VEq(u, v) == FEq(u[1], v[1]) /\ FEq(u[2], v[2])

VIsNaN(u) == IsNaN(u[1]) \/ IsNaN(u[2])

\* np.linalg.norm(v), kept as the number whose non-negative square root it is:
\* sqrt is increasing, so norms compare as their squares do.
Norm(v) == [sq |-> Dot(v, v)]

NormLt(r, s) == FLt(r.sq, s.sq)

\* r > k for a non-negative integer k
NormGtInt(r, k) == FLt(Num(k * k), r.sq)

(***************************************************************************)
(* Bounds and input sets.                                                  *)
(***************************************************************************)
\* longest waypoint sequence drawn (MaxWaypoints - 1 segments)
MaxWaypoints == 3

\* coordinates of the waypoints and of the observed positions
WpCoords == {0, 8, 16}

PosCoords == {0, 4, 8, 12, 16}

WpGrid == WpCoords \X WpCoords

PosGrid == PosCoords \X PosCoords

WaypointSeqs == UNION {[1..n -> WpGrid] : n \in 1..MaxWaypoints}

\* routes that begin with a repeated waypoint, MaxWaypoints - 1 more after it
RepeatedStartSeqs ==
    {<<s[1]>> \o s : s \in [1..MaxWaypoints -> WpGrid]}

VARIABLES
    \* utils.py closest_projection_onto_line_segments
    point, lines, valid_lines, closest_projection, min_distance, pcProj,
    \* perpendicular-path-deviation.py main, one robot
    waypoints, positions, dev_lines, closest_projections, error, rmse, pcDev,
    \* analyse-junction-scenario.py extract_data_from_file
    robots, goal_areas, robot_index, num_robots_reached_goal, throughput, pcJ,
    \* main of analyse-circle-scenario.py and of analyse-junction-scenario.py
    scenario, files, futures, finished, next_result,
    aggregated_data_distance_travelled, aggregated_data_makespan,
    aggregated_data_ldj, aggregated_data, raised, emitted, summary, pcMain,
    \* ldj.py ldj: the arguments of successive calls and what each call gave
    ldj_args, ldj_results,
    \* two run records under the per-robot loops of process_file
    \* (analyse-circle-scenario.py) and of perpendicular-path-deviation.py
    run_records, circle_next, distance_travelled, circle_out, circle_status,
    dev_next, dev_out, dev_status,
    \* process_file of either batch on one file of the results directory
    file_scenario, file_name, file_result, pcFile,
    \* main of distance-travelled.py, of ldj.py and of
    \* perpendicular-path-deviation.py on one run record
    script, record, of_each_robot, printed, stats, pcStats

projVars == <<point, lines, valid_lines, closest_projection, min_distance, pcProj>>

devVars == <<waypoints, positions, dev_lines, closest_projections, error, rmse, pcDev>>

junctionVars == <<robots, goal_areas, robot_index, num_robots_reached_goal, throughput, pcJ>>

aggregateVars == <<aggregated_data_distance_travelled, aggregated_data_makespan,
                   aggregated_data_ldj, aggregated_data>>

batchVars == <<scenario, files, futures, finished, next_result, aggregateVars,
               raised, emitted, summary, pcMain>>

ldjVars == <<ldj_args, ldj_results>>

runVars == <<run_records, circle_next, distance_travelled, circle_out, circle_status,
             dev_next, dev_out, dev_status>>

fileVars == <<file_scenario, file_name, file_result, pcFile>>

statsVars == <<script, record, of_each_robot, printed, stats, pcStats>>

vars == <<projVars, devVars, junctionVars, batchVars, ldjVars, runVars, fileVars, statsVars>>

\* the variables of the routines other than the one named
exceptProj == <<devVars, junctionVars, batchVars, ldjVars, runVars, fileVars, statsVars>>

exceptDev == <<projVars, junctionVars, batchVars, ldjVars, runVars, fileVars, statsVars>>

exceptJunction == <<projVars, devVars, batchVars, ldjVars, runVars, fileVars, statsVars>>

exceptBatch == <<projVars, devVars, junctionVars, ldjVars, runVars, fileVars, statsVars>>

exceptLdj == <<projVars, devVars, junctionVars, batchVars, runVars, fileVars, statsVars>>

exceptRuns == <<projVars, devVars, junctionVars, batchVars, ldjVars, fileVars, statsVars>>

exceptFile == <<projVars, devVars, junctionVars, batchVars, ldjVars, runVars, statsVars>>

exceptStats == <<projVars, devVars, junctionVars, batchVars, ldjVars, runVars, fileVars>>

(***************************************************************************)
(* utils.py: sliding_window, projection_onto_line, line_is_valid,          *)
(* closest_projection_onto_line_segments                                   *)
(***************************************************************************)
\* sliding_window(waypoints, 2) as LinePoints(start, end)
SlidingPairs(wps) ==
    [i \in 1..(IF Len(wps) = 0 THEN 0 ELSE Len(wps) - 1) |->
        [start |-> wps[i], end |-> wps[i + 1]]]

\* start + dot(point - start, v) / dot(v, v) * v, with v = end - start
projection_onto_line(pt, line) ==
    LET start == Vec(line.start)
        line_vector == VSub(Vec(line.end), start)
        t == FDiv(Dot(VSub(pt, start), line_vector), Dot(line_vector, line_vector))
    IN  VAdd(start, VScale(t, line_vector))

(***************************************************************************)
(* abs(arctan2(v1[0], v1[1]) - arctan2(v2[0], v2[1])) >= pi/2, decided     *)
(* exactly.  a(v) = arctan2(v[0], v[1]) lies in (-pi, pi], is measured     *)
(* from the +y axis, and a(<<0, 0>>) = 0.  The two angles are subtracted   *)
(* as they are, without wrapping, so with d = a(v1) - a(v2):               *)
(*   |d| >  3pi/2  iff one vector has a > pi/2 (x >= 0, y < 0) and the     *)
(*                 other has a < -pi/2 (x < 0, y < 0);                     *)
(*   otherwise |d| >= pi/2 iff cos d <= 0 iff v1.v2 <= 0.                  *)
(* A zero vector has angle 0, so the test is then |a(other)| >= pi/2, that *)
(* is other # 0 and other.y <= 0.                                          *)
(***************************************************************************)
AngleAbovePlusHalfPi(v) == v[1].n >= 0 /\ v[2].n < 0

AngleBelowMinusHalfPi(v) == v[1].n < 0 /\ v[2].n < 0

IsZeroVec(v) == v[1].n = 0 /\ v[2].n = 0

AbsAngleDiffGeHalfPi(v1, v2) ==
    IF IsZeroVec(v1) /\ IsZeroVec(v2) THEN FALSE
    ELSE IF IsZeroVec(v1) THEN v2[2].n <= 0
    ELSE IF IsZeroVec(v2) THEN v1[2].n <= 0
    ELSE \/ Dot(v1, v2).n <= 0
         \/ AngleAbovePlusHalfPi(v1) /\ AngleBelowMinusHalfPi(v2)
         \/ AngleAbovePlusHalfPi(v2) /\ AngleBelowMinusHalfPi(v1)

\* the angle at the point tested by the sign of v1.v2 alone
line_is_valid_by_dot(line_point, pt) ==
    Dot(VSub(pt, Vec(line_point.start)), VSub(pt, Vec(line_point.end))).n <= 0

line_is_valid(line_point, pt) ==
    LET v1 == VSub(pt, Vec(line_point.start))
        v2 == VSub(pt, Vec(line_point.end))
    IN  AbsAngleDiffGeHalfPi(v1, v2)

\* no line is sorted out
AllLines(pt, ls) == ls

\* [line for line in lines if line_is_valid(line, point)]
ValidLines(pt, ls) == SelectSeq(ls, LAMBDA l : line_is_valid(l, pt))

\* min with the last of the nearest elements kept
RECURSIVE MinFromLast(_, _, _, _)
MinFromLast(projs, pt, i, best) ==
    IF i > Len(projs) THEN best
    ELSE MinFromLast(projs, pt, i + 1,
                     IF NormLt(Norm(VSub(best, pt)), Norm(VSub(projs[i], pt)))
                     THEN best ELSE projs[i])

\* Python's min(projections, key=lambda proj: norm(proj - point)): the first
\* element is kept until a later one has a strictly smaller key, and no
\* comparison with a nan key succeeds.
RECURSIVE MinFrom(_, _, _, _)
MinFrom(projs, pt, i, best) ==
    IF i > Len(projs) THEN best
    ELSE MinFrom(projs, pt, i + 1,
                 IF NormLt(Norm(VSub(projs[i], pt)), Norm(VSub(best, pt)))
                 THEN projs[i] ELSE best)

MinByDistance(projs, pt) == MinFrom(projs, pt, 2, projs[1])

Projections(pt, ls) == [i \in 1..Len(ls) |-> projection_onto_line(pt, ls[i])]

\* the fixed fallback threshold of closest_projection_onto_line_segments
Threshold == 10

NoVec == <<NaN, NaN>>

NoNorm == [sq |-> NaN]

ParkedProj ==
    /\ point = <<0, 0>>
    /\ lines = <<>>
    /\ valid_lines = <<>>
    /\ closest_projection = NoVec
    /\ min_distance = NoNorm
    /\ pcProj = "idle"

ParkedDev ==
    /\ waypoints = <<>>
    /\ positions = <<>>
    /\ dev_lines = <<>>
    /\ closest_projections = <<>>
    /\ error = NaN
    /\ rmse = NoNorm
    /\ pcDev = "idle"

ParkedJunction ==
    /\ robots = <<>>
    /\ goal_areas = <<>>
    /\ robot_index = 0
    /\ num_robots_reached_goal = 0
    /\ throughput = NaN
    /\ pcJ = "idle"

ParkedBatch ==
    /\ scenario = "none"
    /\ files = <<>>
    /\ futures = <<>>
    /\ finished = <<>>
    /\ next_result = 0
    /\ aggregated_data_distance_travelled = <<>>
    /\ aggregated_data_makespan = <<>>
    /\ aggregated_data_ldj = <<>>
    /\ aggregated_data = <<>>
    /\ raised = "none"
    /\ emitted = FALSE
    /\ summary = <<>>
    /\ pcMain = "idle"

ParkedLdj ==
    /\ ldj_args = <<>>
    /\ ldj_results = <<>>

ParkedRuns ==
    /\ run_records = <<>>
    /\ circle_next = <<>>
    /\ distance_travelled = <<>>
    /\ circle_out = <<>>
    /\ circle_status = <<>>
    /\ dev_next = <<>>
    /\ dev_out = <<>>
    /\ dev_status = <<>>

ParkedFile ==
    /\ file_scenario = "none"
    /\ file_name = <<>>
    /\ file_result = <<>>
    /\ pcFile = "idle"

ParkedStats ==
    /\ script = "none"
    /\ record = <<>>
    /\ of_each_robot = <<>>
    /\ printed = <<>>
    /\ stats = <<>>
    /\ pcStats = "idle"

InitProj ==
    /\ ParkedDev
    /\ ParkedJunction
    /\ ParkedBatch
    /\ ParkedLdj
    /\ ParkedRuns
    /\ ParkedFile
    /\ ParkedStats
    /\ point \in PosGrid
    /\ \E wps \in WaypointSeqs \cup RepeatedStartSeqs : lines = SlidingPairs(wps)
    /\ valid_lines = <<>>
    /\ closest_projection = NoVec
    /\ min_distance = NoNorm
    /\ pcProj = "filter"

\* the first line alone stands in when no line is valid
ValidOrFirstLine(pt, ls) ==
    IF ValidLines(pt, ls) # <<>> THEN ValidLines(pt, ls)
    ELSE IF ls = <<>> THEN ls ELSE <<ls[1]>>

\* valid_lines = valid_lines if valid_lines else lines
ValidOrAllLines(pt, ls) ==
    IF ValidLines(pt, ls) # <<>> THEN ValidLines(pt, ls) ELSE ls

\* valid_lines = [...]; valid_lines = valid_lines if valid_lines else lines
ProjFilter ==
    /\ pcProj = "filter"
    /\ valid_lines' = ValidOrAllLines(Vec(point), lines)
    /\ pcProj' = "first"
    /\ UNCHANGED <<point, lines, closest_projection, min_distance>>
    /\ UNCHANGED exceptProj

\* min() of an empty list of projections raises ValueError
ProjFirstEmpty ==
    /\ pcProj = "first"
    /\ valid_lines = <<>>
    /\ pcProj' = "ValueError"
    /\ UNCHANGED <<point, lines, valid_lines, closest_projection, min_distance>>
    /\ UNCHANGED exceptProj

\* closest_projection = min(projections, ...); min_distance = norm(...)
ProjFirst ==
    /\ pcProj = "first"
    /\ valid_lines # <<>>
    /\ LET closest == MinByDistance(Projections(Vec(point), valid_lines), Vec(point))
       IN  /\ closest_projection' = closest
           /\ min_distance' = Norm(VSub(closest, Vec(point)))
    /\ pcProj' = "check"
    /\ UNCHANGED <<point, lines, valid_lines>>
    /\ UNCHANGED exceptProj

\* ProjFallback with the recomputation left on the filtered lines
ProjFallbackValidOnly ==
    /\ pcProj = "check"
    /\ NormGtInt(min_distance, Threshold)
    /\ closest_projection' =
           MinByDistance(Projections(Vec(point), valid_lines), Vec(point))
    /\ pcProj' = "return"
    /\ UNCHANGED <<point, lines, valid_lines, min_distance>>
    /\ UNCHANGED exceptProj

\* if min_distance > 10: the minimum is taken again over all lines
ProjFallback ==
    /\ pcProj = "check"
    /\ NormGtInt(min_distance, Threshold)
    /\ valid_lines' = lines
    /\ closest_projection' = MinByDistance(Projections(Vec(point), lines), Vec(point))
    /\ pcProj' = "return"
    /\ UNCHANGED <<point, lines, min_distance>>
    /\ UNCHANGED exceptProj

ProjReturn ==
    /\ pcProj = "check"
    /\ ~NormGtInt(min_distance, Threshold)
    /\ pcProj' = "return"
    /\ UNCHANGED <<point, lines, valid_lines, closest_projection, min_distance>>
    /\ UNCHANGED exceptProj

NextProj == ProjFilter \/ ProjFirstEmpty \/ ProjFirst \/ ProjFallback \/ ProjReturn

SpecProj == InitProj /\ [][NextProj]_vars

(***************************************************************************)
(* Properties of closest_projection_onto_line_segments (SpecProj)          *)
(***************************************************************************)
NoDegenerate(ls) == \A i \in 1..Len(ls) : ls[i].start # ls[i].end

DistTo(pt, q) == Norm(VSub(q, pt))

\* c is a projection of pt onto the line of one of ls and no projection onto
\* a line of ls is nearer to pt
NearestAmong(c, pt, ls) ==
    /\ ~VIsNaN(c)
    /\ \E i \in 1..Len(ls) : VEq(c, projection_onto_line(pt, ls[i]))
    /\ \A i \in 1..Len(ls) :
           ~NormLt(DistTo(pt, projection_onto_line(pt, ls[i])), DistTo(pt, c))

FellBack == pcProj = "return" /\ NormGtInt(min_distance, Threshold)

\* C1 (as amended): for a non-empty list of non-degenerate segments, when the
\* nearest candidate projection is farther than 10 from the point, the
\* returned projection is the nearest to the point among the projections
\* onto the lines of all segments.
C1_FallbackIsGlobalNearest ==
    (FellBack /\ NoDegenerate(lines))
        => NearestAmong(closest_projection, Vec(point), lines)

\* C1 witness: the fallback ran and returned a projection nearer than the
\* nearest one among the angle-valid segments.
C1_FallbackPicksInvalidSegment ==
    /\ FellBack
    /\ NoDegenerate(lines)
    /\ NormLt(DistTo(Vec(point), closest_projection), min_distance)

\* C1 as stated, for every non-empty segment list: refuted by a list whose
\* first segment is degenerate.
C1_FallbackAnySegments ==
    FellBack => NearestAmong(closest_projection, Vec(point), lines)

\* the segments that pass the angle test for the point, in segment order
PassingSegments == SelectSeq(lines, LAMBDA l : line_is_valid(l, Vec(point)))

ReturnedWithoutFallback == pcProj = "return" /\ ~NormGtInt(min_distance, Threshold)

\* C17: when at least one segment passes the angle test and the nearest
\* projection among the passing segments is at distance <= 10 from the point,
\* the returned projection is the nearest one among the passing segments.
C17_NearestAmongValidOnly ==
    (ReturnedWithoutFallback /\ PassingSegments # <<>>)
        => /\ NearestAmong(closest_projection, Vec(point), PassingSegments)
           /\ min_distance = DistTo(Vec(point), closest_projection)

\* C17 witness: the projection was returned from the passing segments
\* although a segment that fails the test has a strictly nearer projection.
C17_InvalidSegmentIsNearer ==
    /\ ReturnedWithoutFallback
    /\ PassingSegments # <<>>
    /\ \E i \in 1..Len(lines) :
          /\ ~line_is_valid(lines[i], Vec(point))
          /\ NormLt(DistTo(Vec(point), projection_onto_line(Vec(point), lines[i])),
                    DistTo(Vec(point), closest_projection))

\* C18 (as amended): for a list of non-degenerate segments none of which
\* passes the angle test for the point, the candidates are all segments and
\* the returned projection is the nearest to the point among the projections
\* onto the lines of all segments.
C18_NoValidSegmentNearestOfAll ==
    (pcProj = "return" /\ PassingSegments = <<>> /\ NoDegenerate(lines))
        => /\ valid_lines = lines
           /\ NearestAmong(closest_projection, Vec(point), lines)

\* C18 witness: no segment of two non-degenerate ones passes the test, and
\* the projection returned without the distance fallback is strictly nearer
\* than the projection onto the first segment's line.
C18_SecondOfTwoInvalidReturned ==
    /\ ReturnedWithoutFallback
    /\ PassingSegments = <<>>
    /\ NoDegenerate(lines)
    /\ Len(lines) = 2
    /\ NormLt(DistTo(Vec(point), closest_projection),
              DistTo(Vec(point), projection_onto_line(Vec(point), lines[1])))

\* C18 as stated, for every segment list: refuted by a list whose first
\* segment is degenerate.
C18_NoValidSegmentAnySegments ==
    (pcProj = "return" /\ PassingSegments = <<>>)
        => /\ valid_lines = lines
           /\ NearestAmong(closest_projection, Vec(point), lines)

\* the parameter of the projection of pt along the segment:
\* dot(point - start, line_vector) / dot(line_vector, line_vector)
ParameterT(pt, line) ==
    LET start == Vec(line.start)
        line_vector == VSub(Vec(line.end), start)
    IN  FDiv(Dot(VSub(pt, start), line_vector), Dot(line_vector, line_vector))

WithinSpan(pt, line) ==
    /\ FLe(Num(0), ParameterT(pt, line))
    /\ FLe(ParameterT(pt, line), Num(1))

\* C19: every non-degenerate segment that line_is_valid lets through has the
\* projection of the point between its endpoints: 0 <= t <= 1.
C19_ValidImpliesWithinSpan ==
    (pcProj \in {"first", "check", "return"})
        => \A i \in 1..Len(lines) :
               (/\ lines[i].start # lines[i].end
                /\ line_is_valid(lines[i], Vec(point))
                /\ \E j \in 1..Len(valid_lines) : valid_lines[j] = lines[i])
               => WithinSpan(Vec(point), lines[i])

\* the segment (0,8)-(8,16) was kept as valid for the point (4,0), whose
\* projection has t = -1/4
C19_ValidBeyondStart ==
    /\ pcProj = "first"
    /\ point = <<4, 0>>
    /\ lines = <<[start |-> <<0, 8>>, end |-> <<8, 16>>]>>
    /\ valid_lines = lines
    /\ line_is_valid(lines[1], Vec(point))
    /\ ParameterT(Vec(point), lines[1]) = Rat(-1, 4)

\* the distance from the point to its projection onto candidate i; the
\* candidates of the pass that gave the returned projection are valid_lines
CandidateDistance(i) ==
    DistTo(Vec(point), projection_onto_line(Vec(point), valid_lines[i]))

\* candidate i is at the minimal distance
MinimalAt(i) ==
    /\ ~IsNaN(CandidateDistance(i).sq)
    /\ \A j \in 1..Len(valid_lines) : ~NormLt(CandidateDistance(j), CandidateDistance(i))

\* two candidates or more are at the minimal distance
Tied == \E i, j \in 1..Len(valid_lines) : i < j /\ MinimalAt(i) /\ MinimalAt(j)

FirstMinimal == CHOOSE i \in 1..Len(valid_lines) :
                    MinimalAt(i) /\ \A j \in 1..(i - 1) : ~MinimalAt(j)

\* the pass that gave the returned projection ran over all segments
AllSegmentsPass == PassingSegments = <<>> \/ NormGtInt(min_distance, Threshold)

\* C20 (as amended): when several candidates are at the same minimal
\* distance from the point and no candidate is degenerate, the returned
\* projection is that of the first of them in segment order, in the
\* valid-only pass and in the all-segments pass.
C20_TieGoesToFirstInOrder ==
    (pcProj = "return" /\ Tied /\ NoDegenerate(valid_lines))
        => VEq(closest_projection,
               projection_onto_line(Vec(point), valid_lines[FirstMinimal]))

\* C20 witness: the all-segments pass returned the first of two different
\* projections at the same minimal distance.
C20_TieInAllSegmentsPass ==
    /\ pcProj = "return"
    /\ AllSegmentsPass
    /\ NoDegenerate(valid_lines)
    /\ \E i, j \in 1..Len(valid_lines) :
          /\ i < j /\ MinimalAt(i) /\ MinimalAt(j)
          /\ ~VEq(projection_onto_line(Vec(point), valid_lines[i]),
                  projection_onto_line(Vec(point), valid_lines[j]))

\* the valid-only pass returned the first of two different projections at
\* the same minimal distance
C20_TieInValidOnlyPass ==
    /\ pcProj = "return"
    /\ ~AllSegmentsPass
    /\ \E i, j \in 1..Len(valid_lines) :
          /\ i < j /\ MinimalAt(i) /\ MinimalAt(j)
          /\ ~VEq(projection_onto_line(Vec(point), valid_lines[i]),
                  projection_onto_line(Vec(point), valid_lines[j]))

\* C20 as stated, for every candidate list: refuted by a degenerate first
\* segment followed by two segments at the same distance.
C20_TieGoesToFirstAnySegments ==
    (pcProj = "return" /\ Tied)
        => VEq(closest_projection,
               projection_onto_line(Vec(point), valid_lines[FirstMinimal]))

Degenerate(line) == line.start = line.end

\* the list without its degenerate segments, the others in their order
WithoutDegenerate(ls) == SelectSeq(ls, LAMBDA l : ~Degenerate(l))

\* closest_projection_onto_line_segments(point, lines) as a function of its
\* arguments, for a non-empty list
closest_projection_onto_line_segments(pt, ls) ==
    LET closest == MinByDistance(Projections(pt, ValidOrAllLines(pt, ls)), pt)
    IN  IF NormGtInt(Norm(VSub(closest, pt)), Threshold)
        THEN MinByDistance(Projections(pt, ls), pt)
        ELSE closest

\* what the call returned is the function of the point and of the lines
ReturnedIsFunctionOfArguments ==
    (pcProj = "return")
        => closest_projection = closest_projection_onto_line_segments(Vec(point), lines)

\* some non-degenerate segment passes the angle test and the projection
\* onto its line is at distance <= 10 from the point
ValidNearSegment ==
    \E i \in 1..Len(lines) :
        /\ ~Degenerate(lines[i])
        /\ line_is_valid(lines[i], Vec(point))
        /\ ~NormGtInt(DistTo(Vec(point), projection_onto_line(Vec(point), lines[i])),
                      Threshold)

\* C25: a degenerate segment never passes line_is_valid for the point; it
\* is among the candidate segments only when the candidates are all the
\* segments (no segment valid, or nearest valid distance > 10); and when
\* some non-degenerate segment is valid with projection distance <= 10 the
\* returned projection is the one returned for the list without its
\* degenerate segments.
C25_DegenerateNeverValidNorDecisive ==
    /\ \A i \in 1..Len(lines) :
           Degenerate(lines[i]) => ~line_is_valid(lines[i], Vec(point))
    /\ (pcProj \in {"first", "check", "return"}
            /\ \E i \in 1..Len(valid_lines) : Degenerate(valid_lines[i]))
           => /\ valid_lines = lines
              /\ PassingSegments = <<>> \/ FellBack
    /\ (pcProj = "return" /\ ValidNearSegment)
           => /\ ~VIsNaN(closest_projection)
              /\ VEq(closest_projection,
                     closest_projection_onto_line_segments(Vec(point),
                                                           WithoutDegenerate(lines)))

\* C25 witness: a degenerate segment lies at the point itself, ahead of a
\* valid segment whose projection, at distance <= 10, was returned.
C25_ReturnedPastDegenerateSegment ==
    /\ pcProj = "return"
    /\ Len(lines) >= 2
    /\ Degenerate(lines[1])
    /\ lines[1].start = point
    /\ ValidNearSegment
    /\ ~FellBack
    /\ ~VIsNaN(closest_projection)

\* a degenerate segment was a candidate on each of the all-segments paths
C25_DegenerateCandidateNoValid ==
    /\ pcProj = "return"
    /\ PassingSegments = <<>>
    /\ \E i \in 1..Len(valid_lines) : Degenerate(valid_lines[i])

C25_DegenerateCandidateFellBack ==
    /\ FellBack
    /\ PassingSegments # <<>>
    /\ \E i \in 1..Len(valid_lines) : Degenerate(valid_lines[i])

(***************************************************************************)
(* perpendicular-path-deviation.py: line_from_line_segment,                *)
(* projection_onto_line (slope-intercept), closest_projection_onto_line_   *)
(* segments, and the per-robot body of main                                *)
(***************************************************************************)
\* longest sequence of observed positions drawn
MaxPositions == 2

\* Waypoints whose pairwise distances are rational (sides 10, 13, 12, 24, 5),
\* so that every point-to-line distance below has an exact square root.
DevWpGrid == {<<0, 0>>, <<10, 0>>, <<5, 12>>, <<5, -12>>, <<5, 0>>}

DevPosGrid == {<<5, 1>>, <<5, -1>>, <<0, 0>>, <<5, 0>>, <<10, 5>>}

DevWaypointSeqs == UNION {[1..n -> DevWpGrid] : n \in 0..MaxWaypoints}

DevPositionSeqs == UNION {[1..n -> DevPosGrid] : n \in 1..MaxPositions}

RECURSIVE ISqrtFrom(_, _)
ISqrtFrom(k, r) == IF (r + 1) * (r + 1) > k THEN r ELSE ISqrtFrom(k, r + 1)

ISqrt(k) == ISqrtFrom(k, 0)

IsSquare(x) == ISqrt(x.n) * ISqrt(x.n) = x.n /\ ISqrt(x.d) * ISqrt(x.d) = x.d

\* the value of a norm: exact when the radicand is the square of a rational
NormValue(r) ==
    IF IsNaN(r.sq) THEN NaN
    ELSE IF IsInf(r.sq) THEN PosInf
    ELSE Rat(ISqrt(r.sq.n), ISqrt(r.sq.d))

\* np.sqrt(x), kept as the radicand; nan for nan and for x < 0
NpSqrt(x) == IF FLt(x, Num(0)) THEN [sq |-> NaN] ELSE [sq |-> x]

\* a = (y2 - y1) / (x2 - x1); b = y1 - (a * x1)
line_from_line_segment(x1, y1, x2, y2) ==
    LET a == FDiv(FSub(y2, y1), FSub(x2, x1))
    IN  [a |-> a, b |-> FSub(y1, FMul(a, x1))]

\* xp = (x1 + a * (y1 - b)) / (a * a + 1); projection = [xp, a * xp + b]
dev_projection_onto_line(pt, line) ==
    LET xp == FDiv(FAdd(pt[1], FMul(line.a, FSub(pt[2], line.b))),
                   FAdd(FMul(line.a, line.a), Num(1)))
    IN  <<xp, FAdd(FMul(line.a, xp), line.b)>>

DevProjections(pt, ls) == [i \in 1..Len(ls) |-> dev_projection_onto_line(pt, ls[i])]

\* min(projections, key=lambda proj: np.linalg.norm(proj - point))
dev_closest_projection_onto_line_segments(pt, ls) ==
    MinByDistance(DevProjections(pt, ls), pt)

\* RowDistance without the square root
RowDistanceSquared(pos, proj) == Norm(VSub(Vec(pos), proj)).sq

\* np.linalg.norm(positions - closest_projections, axis=1), one row
RowDistance(pos, proj) == NormValue(Norm(VSub(Vec(pos), proj)))

\* np.sum(np.linalg.norm(positions - closest_projections, axis=1))
RECURSIVE SumOfDistances(_, _, _)
SumOfDistances(ps, cps, i) ==
    IF i > Len(ps) THEN Num(0)
    ELSE FAdd(RowDistance(ps[i], cps[i]), SumOfDistances(ps, cps, i + 1))

InitDev ==
    /\ ParkedProj
    /\ ParkedJunction
    /\ ParkedBatch
    /\ ParkedLdj
    /\ ParkedRuns
    /\ ParkedFile
    /\ ParkedStats
    /\ waypoints \in DevWaypointSeqs
    /\ positions \in DevPositionSeqs
    /\ dev_lines = <<>>
    /\ closest_projections = <<>>
    /\ error = NaN
    /\ rmse = NoNorm
    /\ pcDev = "lines"

\* a single waypoint taken as a segment from the waypoint to itself
DevLinesDegenerate ==
    /\ pcDev = "lines"
    /\ Len(waypoints) = 1
    /\ dev_lines' = <<line_from_line_segment(Num(waypoints[1][1]), Num(waypoints[1][2]),
                                             Num(waypoints[1][1]), Num(waypoints[1][2]))>>
    /\ pcDev' = "project"
    /\ UNCHANGED <<waypoints, positions, closest_projections, error, rmse>>
    /\ UNCHANGED exceptDev

\* np.squeeze turns a single waypoint into a 1-d array, whose two scalars
\* sliding_window pairs up; unpacking *start of a scalar raises TypeError
DevLinesScalar ==
    /\ pcDev = "lines"
    /\ Len(waypoints) = 1
    /\ pcDev' = "TypeError"
    /\ UNCHANGED <<waypoints, positions, dev_lines, closest_projections, error, rmse>>
    /\ UNCHANGED exceptDev

\* [line_from_line_segment(*start, *end) for start, end in sliding_window(waypoints, 2)]
LinesOf(wps) ==
    [i \in 1..Len(SlidingPairs(wps)) |->
        LET w == SlidingPairs(wps)[i]
        IN  line_from_line_segment(Num(w.start[1]), Num(w.start[2]),
                                   Num(w.end[1]), Num(w.end[2]))]

DevLines ==
    /\ pcDev = "lines"
    /\ Len(waypoints) # 1
    /\ dev_lines' = LinesOf(waypoints)
    /\ pcDev' = "project"
    /\ UNCHANGED <<waypoints, positions, closest_projections, error, rmse>>
    /\ UNCHANGED exceptDev

\* min() of an empty list of projections raises ValueError
DevProjectEmpty ==
    /\ pcDev = "project"
    /\ Len(closest_projections) < Len(positions)
    /\ dev_lines = <<>>
    /\ pcDev' = "ValueError"
    /\ UNCHANGED <<waypoints, positions, dev_lines, closest_projections, error, rmse>>
    /\ UNCHANGED exceptDev

\* closest_projections = [closest_projection_onto_line_segments(p, lines) for p in positions]
DevProject ==
    /\ pcDev = "project"
    /\ Len(closest_projections) < Len(positions)
    /\ dev_lines # <<>>
    /\ closest_projections' =
           Append(closest_projections,
                  dev_closest_projection_onto_line_segments(
                      Vec(positions[Len(closest_projections) + 1]), dev_lines))
    /\ UNCHANGED <<waypoints, positions, dev_lines, error, rmse, pcDev>>
    /\ UNCHANGED exceptDev

\* error = np.sum(np.linalg.norm(positions - closest_projections, axis=1))
DevError ==
    /\ pcDev = "project"
    /\ Len(closest_projections) = Len(positions)
    /\ error' = SumOfDistances(positions, closest_projections, 1)
    /\ pcDev' = "rmse"
    /\ UNCHANGED <<waypoints, positions, dev_lines, closest_projections, rmse>>
    /\ UNCHANGED exceptDev

\* rmse = np.sqrt(error / len(positions))
DevRmse ==
    /\ pcDev = "rmse"
    /\ rmse' = NpSqrt(FDiv(error, Num(Len(positions))))
    /\ pcDev' = "done"
    /\ UNCHANGED <<waypoints, positions, dev_lines, closest_projections, error>>
    /\ UNCHANGED exceptDev

NextDev == DevLinesScalar \/ DevLines \/ DevProjectEmpty \/ DevProject \/ DevError \/ DevRmse

SpecDev == InitDev /\ [][NextDev]_vars

(***************************************************************************)
(* Properties of the path-deviation projection (SpecDev, SpecProj)         *)
(***************************************************************************)
\* the integer point p lies on the closed segment from s to e
OnSegment(p, s, e) ==
    /\ s # e
    /\ (p[1] - s[1]) * (e[2] - s[2]) = (p[2] - s[2]) * (e[1] - s[1])
    /\ (p[1] - s[1]) * (p[1] - e[1]) + (p[2] - s[2]) * (p[2] - e[2]) <= 0

OnPolyline(p, ls) == \E i \in 1..Len(ls) : OnSegment(p, ls[i].start, ls[i].end)

\* C2: for a polyline of non-degenerate segments, a position lying exactly on
\* one of its segments is its own projection (distance zero), here for the
\* projections main of perpendicular-path-deviation.py computes.
C2_OnSegmentProjectsToItself ==
    (pcDev = "done" /\ NoDegenerate(SlidingPairs(waypoints)))
        => \A k \in 1..Len(positions) :
               OnPolyline(positions[k], SlidingPairs(waypoints))
                   => /\ VEq(closest_projections[k], Vec(positions[k]))
                      /\ RowDistance(positions[k], closest_projections[k]) = Num(0)

\* C2 for closest_projection_onto_line_segments of utils.py
C2_OnSegmentProjectsToItselfUtils ==
    (pcProj = "return" /\ NoDegenerate(lines) /\ OnPolyline(point, lines))
        => VEq(closest_projection, Vec(point))

\* C14: with fewer than 2 waypoints the path-deviation computation fails for
\* every non-empty sequence of positions: it never gets past the derivation
\* of the segments and the first projection, where it stops with an
\* exception, and it yields no projection, no error sum and no RMSE.
C14_FewerThanTwoWaypointsFails ==
    (Len(waypoints) < 2 /\ pcDev # "idle")
        => /\ pcDev \in {"lines", "project", "TypeError", "ValueError"}
           /\ (pcDev = "project" => dev_lines = <<>>)
           /\ closest_projections = <<>>
           /\ error = NaN
           /\ rmse = NoNorm

\* C14 witness: the computation has raised for a single waypoint and two
\* positions.
C14_SingleWaypointRaised ==
    /\ Len(waypoints) = 1
    /\ Len(positions) = 2
    /\ pcDev = "TypeError"
    /\ closest_projections = <<>>

\* the segment from start to end has equal x at both endpoints
Vertical(line) == line.start[1] = line.end[1]

\* the slope-intercept projection of pos onto the k-th line main derived and
\* the vector projection of utils.py onto the k-th segment are the same point
SameProjection(pos, k) ==
    VEq(dev_projection_onto_line(Vec(pos), dev_lines[k]),
        projection_onto_line(Vec(pos), SlidingPairs(waypoints)[k]))

\* C22: for every point and every non-degenerate segment, vertical segments
\* included, the slope-intercept projection (line_from_line_segment, then
\* projection_onto_line of perpendicular-path-deviation.py) is the same point
\* as the vector projection start + ((p - start).v / (v.v)) * v of utils.py.
C22_SlopeProjectionEqualsVectorProjection ==
    (pcDev \in {"project", "rmse", "done"} /\ dev_lines # <<>>)
        => \A k \in 1..Len(dev_lines) : \A pos \in DevPosGrid :
               SlidingPairs(waypoints)[k].start # SlidingPairs(waypoints)[k].end
                   => SameProjection(pos, k)

\* C22 without the vertical segments: the two projections agree for every
\* point and every segment whose endpoints differ in x.
C22_EqualOffVerticalSegments ==
    (pcDev \in {"project", "rmse", "done"} /\ dev_lines # <<>>)
        => \A k \in 1..Len(dev_lines) : \A pos \in DevPosGrid :
               ~Vertical(SlidingPairs(waypoints)[k]) => SameProjection(pos, k)

\* on a vertical segment the slope-intercept projection is nan in both
\* coordinates while the vector projection is a point of the plane
C22_VerticalGivesNaN ==
    (pcDev \in {"project", "rmse", "done"} /\ dev_lines # <<>>)
        => \A k \in 1..Len(dev_lines) : \A pos \in DevPosGrid :
               (Vertical(SlidingPairs(waypoints)[k])
                    /\ SlidingPairs(waypoints)[k].start # SlidingPairs(waypoints)[k].end)
                   => /\ IsNaN(dev_projection_onto_line(Vec(pos), dev_lines[k])[1])
                      /\ IsNaN(dev_projection_onto_line(Vec(pos), dev_lines[k])[2])
                      /\ ~VIsNaN(projection_onto_line(Vec(pos), SlidingPairs(waypoints)[k]))

\* a sloped segment and a vertical segment have both been projected onto
C22_SlopedAndVerticalProjected ==
    /\ pcDev = "done"
    /\ waypoints = <<<<0, 0>>, <<5, 12>>, <<5, -12>>>>
    /\ Len(closest_projections) = Len(positions)

(***************************************************************************)
(* Properties of the per-robot RMSE (SpecDev)                              *)
(***************************************************************************)
\* the sum over the positions k >= i of the Euclidean distance between
\* position k and the projection chosen for it
RECURSIVE C3_DistanceSum(_)
C3_DistanceSum(i) ==
    IF i > Len(positions) THEN Num(0)
    ELSE FAdd(NormValue(DistTo(Vec(positions[i]), closest_projections[i])),
              C3_DistanceSum(i + 1))

\* C3: the reported RMSE is sqrt(S / N), N the number of positions and S the
\* sum of the unsquared distances between each position and its projection
\* (rmse >= 0 and rmse^2 * N = S); waypoints [(0,0),(10,0)] with positions
\* [(5,1),(5,-1)] project to (5,0) twice and give RMSE 1.
C3_RmseIsRootOfMeanDistance ==
    pcDev = "done" =>
        /\ rmse = NpSqrt(rmse.sq)
        /\ FMul(rmse.sq, Num(Len(positions))) = C3_DistanceSum(1)
        /\ (waypoints = <<<<0, 0>>, <<10, 0>>>> /\ positions = <<<<5, 1>>, <<5, -1>>>>)
               => /\ closest_projections = <<Vec(<<5, 0>>), Vec(<<5, 0>>)>>
                  /\ rmse.sq = Num(1)

\* C3 witness: the worked example has been computed
C3_ExampleComputed ==
    /\ pcDev = "done"
    /\ waypoints = <<<<0, 0>>, <<10, 0>>>>
    /\ positions = <<<<5, 1>>, <<5, -1>>>>
    /\ error = Num(2)

(***************************************************************************)
(* analyse-junction-scenario.py: extract_data_from_file                    *)
(***************************************************************************)
\* most robots in an enumerated run record
MaxRobots == 2

\* ignore_after: float = 50.0
ignore_after == 50

StartTimes == {0, 49, 50, 51}

ArrivalTimes == {5, 70}

GoalAreaNames == {"north", "east"}

Entities == 1..MaxRobots

\* data['robots'].items() as the sequence the loop visits: entity, started_at
RobotItems(started) ==
    LET ids == DOMAIN started
        RECURSIVE Items(_)
        Items(left) ==
            IF left = {} THEN <<>>
            ELSE LET e == CHOOSE x \in left : \A y \in left : x <= y
                 IN  <<[entity |-> e, started_at |-> started[e]]>> \o Items(left \ {e})
    IN  Items(ids)

\* a goal area's history: entity -> reached_at
Histories == UNION {[ids -> ArrivalTimes] : ids \in SUBSET Entities}

EnumeratedRecords ==
    {[robots |-> RobotItems(started), goal_areas |-> areas] :
        started \in UNION {[ids -> StartTimes] : ids \in SUBSET Entities \ {{}}},
        areas \in [GoalAreaNames -> Histories]}

\* the record of the throughput example: ten robots started inside the
\* window, all of them in the history of one goal area
TenRobotRecord ==
    [robots |-> [i \in 1..10 |-> [entity |-> i, started_at |-> 0]],
     goal_areas |-> [g \in GoalAreaNames |->
                        IF g = "north" THEN [e \in 1..10 |-> 5] ELSE <<>>]]

JunctionRecords == EnumeratedRecords \cup {TenRobotRecord}

\* if started_at >= ignore_after: continue
StartedTooLateStrict(started_at) == started_at > ignore_after

StartedTooLate(started_at) == started_at >= ignore_after

\* for goal_area in goal_areas: for key, reached_at in history.items():
\*     if entity == key: reached_goal = True
ReachedGoal(entity) ==
    \E g \in DOMAIN goal_areas : \E key \in DOMAIN goal_areas[g] : entity = key

\* the loop of extract_data_from_file over the robots from the i-th on:
\* how many are counted
RECURSIVE CountFrom(_, _)
CountFrom(rec, i) ==
    IF i > Len(rec.robots) THEN 0
    ELSE (IF /\ ~StartedTooLate(rec.robots[i].started_at)
             /\ \E g \in DOMAIN rec.goal_areas :
                   \E key \in DOMAIN rec.goal_areas[g] : rec.robots[i].entity = key
          THEN 1 ELSE 0) + CountFrom(rec, i + 1)

\* extract_data_from_file with a run that counts no robot given throughput 0
extract_data_or_zero(rec) ==
    IF CountFrom(rec, 1) = 0 THEN [exception |-> "none", value |-> Num(0)]
    ELSE [exception |-> "none",
          value |-> FDiv(Num(1), FDiv(Num(ignore_after), Num(CountFrom(rec, 1))))]

\* extract_data_from_file(file_path): the value returned or the exception
\* raised by return (1 / (t / num_robots_reached_goal))
extract_data_from_file(rec) ==
    IF CountFrom(rec, 1) = 0 THEN [exception |-> "ZeroDivisionError", value |-> NaN]
    ELSE [exception |-> "none",
          value |-> FDiv(Num(1), FDiv(Num(ignore_after), Num(CountFrom(rec, 1))))]

InitJunction ==
    /\ ParkedProj
    /\ ParkedDev
    /\ ParkedBatch
    /\ ParkedLdj
    /\ ParkedRuns
    /\ ParkedFile
    /\ ParkedStats
    /\ \E rec \in JunctionRecords :
           /\ robots = rec.robots
           /\ goal_areas = rec.goal_areas
    /\ robot_index = 1
    /\ num_robots_reached_goal = 0
    /\ throughput = NaN
    /\ pcJ = "loop"

\* started_at >= ignore_after: continue
JSkipLate ==
    /\ pcJ = "loop"
    /\ robot_index <= Len(robots)
    /\ StartedTooLate(robots[robot_index].started_at)
    /\ robot_index' = robot_index + 1
    /\ UNCHANGED <<robots, goal_areas, num_robots_reached_goal, throughput, pcJ>>
    /\ UNCHANGED exceptJunction

\* if not reached_goal: continue
JSkipNotReached ==
    /\ pcJ = "loop"
    /\ robot_index <= Len(robots)
    /\ ~StartedTooLate(robots[robot_index].started_at)
    /\ ~ReachedGoal(robots[robot_index].entity)
    /\ robot_index' = robot_index + 1
    /\ UNCHANGED <<robots, goal_areas, num_robots_reached_goal, throughput, pcJ>>
    /\ UNCHANGED exceptJunction

\* num_robots_reached_goal += 1
JCount ==
    /\ pcJ = "loop"
    /\ robot_index <= Len(robots)
    /\ ~StartedTooLate(robots[robot_index].started_at)
    /\ ReachedGoal(robots[robot_index].entity)
    /\ num_robots_reached_goal' = num_robots_reached_goal + 1
    /\ robot_index' = robot_index + 1
    /\ UNCHANGED <<robots, goal_areas, throughput, pcJ>>
    /\ UNCHANGED exceptJunction

\* t = ignore_after; return (1 / (t / num_robots_reached_goal))
JReturn ==
    /\ pcJ = "loop"
    /\ robot_index > Len(robots)
    /\ num_robots_reached_goal # 0
    /\ throughput' = FDiv(Num(1), FDiv(Num(ignore_after), Num(num_robots_reached_goal)))
    /\ pcJ' = "return"
    /\ UNCHANGED <<robots, goal_areas, robot_index, num_robots_reached_goal>>
    /\ UNCHANGED exceptJunction

\* Python's float / int raises ZeroDivisionError for t / 0
JDivideByZero ==
    /\ pcJ = "loop"
    /\ robot_index > Len(robots)
    /\ num_robots_reached_goal = 0
    /\ pcJ' = "ZeroDivisionError"
    /\ UNCHANGED <<robots, goal_areas, robot_index, num_robots_reached_goal, throughput>>
    /\ UNCHANGED exceptJunction

NextJunction == JSkipLate \/ JSkipNotReached \/ JCount \/ JReturn \/ JDivideByZero

SpecJunction == InitJunction /\ [][NextJunction]_vars

(***************************************************************************)
(* Properties of extract_data_from_file (SpecJunction)                     *)
(***************************************************************************)
\* the robots that started strictly before the cutoff and are a key of the
\* history of at least one goal area
C4_Counted ==
    {i \in 1..Len(robots) :
        /\ robots[i].started_at < 50
        /\ \E g \in DOMAIN goal_areas : robots[i].entity \in DOMAIN goal_areas[g]}

JunctionFinished == pcJ \in {"return", "ZeroDivisionError"}

\* C4 (as amended): with c the number of robots started before 50 s that
\* appear in some goal-area history, each counted once, the function returns
\* 1 / (50 / c) = c / 50 when c >= 1 (0.2 for the ten-robot record) and
\* raises ZeroDivisionError when c = 0.
C4_ThroughputIsCountOverWindow ==
    JunctionFinished =>
        LET c == Cardinality(C4_Counted)
        IN  /\ c >= 1 => (pcJ = "return" /\ throughput = Rat(c, 50))
            /\ c = 0 => pcJ = "ZeroDivisionError"
            /\ (pcJ = "return" /\ robots = TenRobotRecord.robots
                    /\ goal_areas = TenRobotRecord.goal_areas)
                   => throughput = Rat(2, 10)

\* C4 witness: a robot present in both histories, with different arrival
\* times, next to a robot that started at the cutoff; one robot is counted
C4_CountedOnceInTwoHistories ==
    /\ pcJ = "return"
    /\ \E i \in C4_Counted : \A g \in DOMAIN goal_areas :
           robots[i].entity \in DOMAIN goal_areas[g]
    /\ \E i \in 1..Len(robots) : robots[i].started_at = 50 /\ i \notin C4_Counted
    /\ throughput = Rat(1, 50)

\* C4 as stated, for every run record: the function returns c / 50
C4_ThroughputForEveryRecord ==
    JunctionFinished =>
        (pcJ = "return" /\ throughput = Rat(Cardinality(C4_Counted), 50))

(***************************************************************************)
(* main of analyse-circle-scenario.py and analyse-junction-scenario.py:    *)
(* executor.map over the globbed files inside `with ProcessPoolExecutor()`,*)
(* then the aggregation loop and the plots.  A file is its name's fields   *)
(* and what process_file does with it: return the metrics of its robots    *)
(* (the metric routines themselves are the other specifications) or raise. *)
(***************************************************************************)
\* most files in the results directory
MaxFiles == 3

\* worker processes of the pool
MaxWorkers == 2

\* num_robots (circle) or qin (junction) in the file name
Keys == {1, 2}

Seeds == {0, 1}

Scenarios == {"circle", "junction"}

\* what process_file raises: failed assertion (name pattern, ldj
\* precondition), missing JSON field, unparsable qin
Exceptions(sc) ==
    IF sc = "circle" THEN {"AssertionError", "KeyError"}
    ELSE {"ValueError", "KeyError", "ZeroDivisionError"}

FileNames == [key : Keys, seed : Seeds]

Outcomes(sc) == {"ok"} \cup Exceptions(sc)

\* the directory listings: sequences of distinct file names, each file with
\* the outcome of processing it
Listings(sc) ==
    UNION {{f \in [1..n -> [key : Keys, seed : Seeds, outcome : Outcomes(sc)]] :
                \A i, j \in 1..n :
                    (i # j) => ([key |-> f[i].key, seed |-> f[i].seed]
                                  # [key |-> f[j].key, seed |-> f[j].seed])} :
           n \in 1..MaxFiles}

\* the robots in data['robots'] of a circle file: as many as the name says
\* for seed 0 and one more for seed 1 (nothing compares the two numbers)
RobotsIn(file) == file.key + file.seed

\* per-robot metrics of a file: robot r of the file with key k and seed s
DistanceOf(file, r) == 100 * file.seed + 10 * file.key + r

LdjOf(file, r) == 0 - (10 * file.seed + r)

MakespanOf(file) == IF file.key = 1 THEN 2 + 2 * file.seed ELSE 10 + file.seed

\* the throughput of a run in which key + seed robots are counted
ThroughputOf(file) == Rat(file.key + file.seed, ignore_after)

\* the run record in a file of the junction batch.  A file marked "ok" has
\* key + seed robots, all started inside the window and all in the history
\* of a goal area; a file marked "ZeroDivisionError" has a run in which no
\* robot is counted: with seed 0 every robot started at the cutoff, with
\* seed 1 no robot is in any history.
RunRecordOf(file) ==
    LET n == file.key + file.seed
        late == file.outcome = "ZeroDivisionError" /\ file.seed = 0
        absent == file.outcome = "ZeroDivisionError" /\ file.seed = 1
    IN  [robots |-> [i \in 1..n |->
                        [entity |-> i,
                         started_at |-> IF late THEN ignore_after ELSE 0]],
         goal_areas |-> [g \in GoalAreaNames |->
                            IF g = "north" /\ ~absent THEN [e \in 1..n |-> 5] ELSE <<>>]]

\* process_file(file): the returned tuple, or the exception raised
process_file(sc, file) ==
    IF file.outcome \notin {"ok", "ZeroDivisionError"} THEN [exception |-> file.outcome]
    ELSE IF sc = "junction"
    THEN (IF extract_data_from_file(RunRecordOf(file)).exception # "none"
          THEN [exception |-> extract_data_from_file(RunRecordOf(file)).exception]
          ELSE [exception |-> "none",
                value |-> [qin_value |-> file.key,
                           extracted_value |->
                               extract_data_from_file(RunRecordOf(file)).value]])
    ELSE [exception |-> "none",
          value |-> [num_robots |-> file.key,
                     distance_travelled_of_each_robot |->
                         [r \in 1..RobotsIn(file) |-> DistanceOf(file, r)],
                     makespan |-> MakespanOf(file),
                     ldj_of_each_robot |-> [r \in 1..RobotsIn(file) |-> LdjOf(file, r)]]]

\* d[k] = vals: the list of the key is replaced
Overwrite(d, k, vals) == [x \in DOMAIN d \cup {k} |-> IF x = k THEN vals ELSE d[x]]

\* defaultdict(list): d[k].extend(vals)
Extend(d, k, vals) ==
    [x \in DOMAIN d \cup {k} |->
        IF x = k THEN (IF k \in DOMAIN d THEN d[k] ELSE <<>>) \o vals ELSE d[x]]

AllDone == \A i \in DOMAIN futures : futures[i] = "done"

Running == {i \in DOMAIN futures : futures[i] = "running"}

Pending == {i \in DOMAIN futures : futures[i] = "pending"}

\* the with-block is left without waiting for the pool
ShutdownNoWait == TRUE

\* ProcessPoolExecutor.__exit__: shutdown(wait=True) returns once every
\* submitted call has finished
ShutdownReturns == AllDone

\* the k-th result in completion order
ResultInCompletionOrder(k) ==
    IF k <= Len(finished) THEN finished[k] ELSE 0

\* the file whose result the iterator of executor.map yields k-th: results
\* come in the order of submission
ResultInOrder(k) == k

InitBatch ==
    /\ ParkedProj
    /\ ParkedDev
    /\ ParkedJunction
    /\ ParkedLdj
    /\ ParkedRuns
    /\ ParkedFile
    /\ ParkedStats
    /\ scenario \in Scenarios
    /\ files \in Listings(scenario)
    /\ futures = <<>>
    /\ finished = <<>>
    /\ next_result = 1
    /\ aggregated_data_distance_travelled = <<>>
    /\ aggregated_data_makespan = <<>>
    /\ aggregated_data_ldj = <<>>
    /\ aggregated_data = <<>>
    /\ raised = "none"
    /\ emitted = FALSE
    /\ summary = <<>>
    /\ pcMain = "map"

\* results = executor.map(process_file, RESULTS_DIR.glob(...)): one call is
\* submitted per file, in the order of the listing
MapSubmit ==
    /\ pcMain = "map"
    /\ futures' = [i \in 1..Len(files) |-> "pending"]
    /\ pcMain' = "shutdown"
    /\ UNCHANGED <<scenario, files, finished, next_result, aggregateVars, raised, emitted, summary>>
    /\ UNCHANGED exceptBatch

\* a free worker process takes the oldest pending call
WorkerStart ==
    /\ Pending # {}
    /\ Cardinality(Running) < MaxWorkers
    /\ LET i == CHOOSE x \in Pending : \A y \in Pending : x <= y
       IN  futures' = [futures EXCEPT ![i] = "running"]
    /\ UNCHANGED <<scenario, files, finished, next_result, aggregateVars, raised,
                   emitted, summary, pcMain>>
    /\ UNCHANGED exceptBatch

\* a worker finishes its call; the result or the exception goes to the future
WorkerFinish ==
    /\ \E i \in Running :
           /\ futures' = [futures EXCEPT ![i] = "done"]
           /\ finished' = Append(finished, i)
    /\ UNCHANGED <<scenario, files, next_result, aggregateVars, raised, emitted, summary, pcMain>>
    /\ UNCHANGED exceptBatch

\* leaving the with-block
Shutdown ==
    /\ pcMain = "shutdown"
    /\ ShutdownReturns
    /\ pcMain' = "aggregate"
    /\ UNCHANGED <<scenario, files, futures, finished, next_result, aggregateVars,
                   raised, emitted, summary>>
    /\ UNCHANGED exceptBatch

NextFile == ResultInOrder(next_result)

\* one pass of `for ... in results:`; future.result() blocks until done
AggregateAppend ==
    /\ pcMain = "aggregate"
    /\ next_result <= Len(files)
    /\ NextFile \in DOMAIN futures
    /\ futures[NextFile] = "done"
    /\ LET res == process_file(scenario, files[NextFile])
       IN  /\ res.exception = "none"
           /\ IF scenario = "circle"
              THEN /\ aggregated_data_distance_travelled' =
                          Extend(aggregated_data_distance_travelled, res.value.num_robots,
                                 res.value.distance_travelled_of_each_robot)
                   /\ aggregated_data_makespan' =
                          Extend(aggregated_data_makespan, res.value.num_robots,
                                 <<res.value.makespan>>)
                   /\ aggregated_data_ldj' =
                          Extend(aggregated_data_ldj, res.value.num_robots,
                                 res.value.ldj_of_each_robot)
                   /\ UNCHANGED aggregated_data
              ELSE /\ aggregated_data' =
                          Extend(aggregated_data, res.value.qin_value,
                                 <<res.value.extracted_value>>)
                   /\ UNCHANGED <<aggregated_data_distance_travelled,
                                  aggregated_data_makespan, aggregated_data_ldj>>
    /\ next_result' = next_result + 1
    /\ UNCHANGED <<scenario, files, futures, finished, raised, emitted, summary, pcMain>>
    /\ UNCHANGED exceptBatch

\* the failed call is passed over and the loop goes on
AggregateSkip ==
    /\ pcMain = "aggregate"
    /\ next_result <= Len(files)
    /\ NextFile \in DOMAIN futures
    /\ futures[NextFile] = "done"
    /\ process_file(scenario, files[NextFile]).exception # "none"
    /\ next_result' = next_result + 1
    /\ UNCHANGED <<scenario, files, futures, finished, aggregateVars, raised, emitted, summary,
                   pcMain>>
    /\ UNCHANGED exceptBatch

\* the iterator re-raises the exception of the call; main does not catch it
AggregateRaise ==
    /\ pcMain = "aggregate"
    /\ next_result <= Len(files)
    /\ NextFile \in DOMAIN futures
    /\ futures[NextFile] = "done"
    /\ process_file(scenario, files[NextFile]).exception # "none"
    /\ raised' = process_file(scenario, files[NextFile]).exception
    /\ pcMain' = "raised"
    /\ UNCHANGED <<scenario, files, futures, finished, next_result, aggregateVars, emitted, summary>>
    /\ UNCHANGED exceptBatch

\* sorted(d.keys())
RECURSIVE SortedSeq(_)
SortedSeq(S) ==
    IF S = {} THEN <<>>
    ELSE LET m == CHOOSE x \in S : \A y \in S : x <= y
         IN  <<m>> \o SortedSeq(S \ {m})

RECURSIVE SumOf(_)
SumOf(values) ==
    IF values = <<>> THEN Num(0)
    ELSE FAdd(SumOf(SubSeq(values, 1, Len(values) - 1)), values[Len(values)])

\* the mean over the sequences of all keys together
MeanOfAll(d, k) ==
    LET all == [x \in DOMAIN d |-> SumOf(d[x])]
        total == SumOf([i \in 1..Len(SortedSeq(DOMAIN d)) |-> all[SortedSeq(DOMAIN d)[i]]])
        count == SumOf([i \in 1..Len(SortedSeq(DOMAIN d)) |->
                           Num(Len(d[SortedSeq(DOMAIN d)[i]]))])
    IN  FDiv(total, count)

\* np.mean(makespan) and sum(values) / len(values) of the sequence of key k
MeanOf(d, k) == FDiv(SumOf(d[k]), Num(Len(d[k])))

\* what main of analyse-circle-scenario.py draws: a box per key from the
\* whole distance and LDJ sequences, and the mean makespan per key
CircleSummary ==
    LET labels == SortedSeq(DOMAIN aggregated_data_makespan)
    IN  [labels |-> labels,
         distance |-> [i \in 1..Len(labels) |-> aggregated_data_distance_travelled[labels[i]]],
         makespan |-> [i \in 1..Len(labels) |->
                          [mean |-> MeanOf([x \in DOMAIN aggregated_data_makespan |->
                                               [j \in 1..Len(aggregated_data_makespan[x]) |->
                                                   Num(aggregated_data_makespan[x][j])]],
                                           labels[i])]],
         ldj |-> [i \in 1..Len(labels) |-> aggregated_data_ldj[labels[i]]]]

\* what main of analyse-junction-scenario.py prints and draws: the average
\* per key in the order of the keys, after the origin
JunctionSummary ==
    LET labels == SortedSeq(DOMAIN aggregated_data)
    IN  [xs |-> <<0>> \o labels,
         ys |-> <<[mean |-> Num(0)]>>
                  \o [i \in 1..Len(labels) |-> [mean |-> MeanOf(aggregated_data, labels[i])]]]

\* the results are exhausted: the statistics are computed and the plots saved
Summarise ==
    /\ pcMain = "aggregate"
    /\ next_result > Len(files)
    /\ emitted' = TRUE
    /\ summary' = IF scenario = "circle" THEN CircleSummary ELSE JunctionSummary
    /\ pcMain' = "done"
    /\ UNCHANGED <<scenario, files, futures, finished, next_result, aggregateVars, raised>>
    /\ UNCHANGED exceptBatch

NextBatch ==
    \/ MapSubmit
    \/ WorkerStart
    \/ WorkerFinish
    \/ Shutdown
    \/ AggregateAppend
    \/ AggregateRaise
    \/ Summarise

SpecBatch == InitBatch /\ [][NextBatch]_vars

(***************************************************************************)
(* Properties of the batch aggregation.                                    *)
(***************************************************************************)
\* the values one file contributes to a per-key sequence
Contribution(file, field) ==
    IF field = "distance" THEN [r \in 1..RobotsIn(file) |-> DistanceOf(file, r)]
    ELSE IF field = "ldj" THEN [r \in 1..RobotsIn(file) |-> LdjOf(file, r)]
    ELSE IF field = "makespan" THEN <<MakespanOf(file)>>
    ELSE <<ThroughputOf(file)>>

RECURSIVE InListingOrder(_, _, _)
\* the values of the first n listed files that carry key k, in listing order
InListingOrder(k, n, field) ==
    IF n = 0 THEN <<>>
    ELSE InListingOrder(k, n - 1, field)
            \o (IF files[n].key = k THEN Contribution(files[n], field) ELSE <<>>)

PerKey(d, k) == IF k \in DOMAIN d THEN d[k] ELSE <<>>

KeysOfFirst(n) == {files[i].key : i \in 1..n}

Aggregating == pcMain \in {"aggregate", "raised", "done"}

\* C5: whatever the order in which the workers finish, each per-key sequence
\* holds the values of the files consumed so far in the order of the file
\* listing, so it is determined by the listing alone.
C5_PerKeyInListingOrder ==
    Aggregating =>
        LET n == next_result - 1
        IN  IF scenario = "circle"
            THEN /\ DOMAIN aggregated_data_distance_travelled = KeysOfFirst(n)
                 /\ DOMAIN aggregated_data_makespan = KeysOfFirst(n)
                 /\ DOMAIN aggregated_data_ldj = KeysOfFirst(n)
                 /\ \A k \in Keys :
                      /\ PerKey(aggregated_data_distance_travelled, k)
                            = InListingOrder(k, n, "distance")
                      /\ PerKey(aggregated_data_makespan, k)
                            = InListingOrder(k, n, "makespan")
                      /\ PerKey(aggregated_data_ldj, k) = InListingOrder(k, n, "ldj")
            ELSE /\ DOMAIN aggregated_data = KeysOfFirst(n)
                 /\ \A k \in Keys :
                      PerKey(aggregated_data, k) = InListingOrder(k, n, "throughput")

\* two files of one key, the later one finished first, both aggregated
C5_LaterFileFinishedFirst ==
    /\ pcMain = "done"
    /\ Len(files) >= 2
    /\ files[1].key = files[2].key
    /\ finished[1] = 2
    /\ Len(PerKey(aggregated_data_makespan, files[1].key)) >= 2

\* C6: the aggregates change only in a step of the coordinator's loop, taken
\* when every submitted call has finished; steps of the workers leave them
\* alone.
C6_AppendsAfterAllFinished ==
    [][(aggregateVars' # aggregateVars)
          => (/\ pcMain = "aggregate"
              /\ AllDone
              /\ Len(finished) = Len(files)
              /\ futures' = futures
              /\ finished' = finished)]_vars

\* the first listed file finished last, and its value is in the aggregate
C6_AppendedAfterSlowFirstFile ==
    /\ pcMain = "aggregate"
    /\ scenario = "junction"
    /\ Len(files) = MaxFiles
    /\ finished[Len(files)] = 1
    /\ next_result = 2
    /\ aggregated_data # <<>>

\* the files consumed so far whose name carries robot count k
ConsumedOfKey(k) == {i \in 1..(next_result - 1) : files[i].key = k}

RECURSIVE RobotEntries(_)
\* the robot entries contained in the files S
RobotEntries(S) ==
    IF S = {} THEN 0
    ELSE LET i == CHOOSE x \in S : TRUE
         IN  RobotsIn(files[i]) + RobotEntries(S \ {i})

\* C24: while and after the circle batch aggregates, for every robot-count
\* key k the makespan sequence of k has one entry per consumed file whose
\* name carries k, whatever the seed; the distance and LDJ sequences of k
\* have the same length, the number of robot entries in those files; and
\* the three aggregate maps have the same keys.
C24_SequenceLengthsPerKey ==
    (Aggregating /\ scenario = "circle") =>
        /\ DOMAIN aggregated_data_distance_travelled = DOMAIN aggregated_data_makespan
        /\ DOMAIN aggregated_data_makespan = DOMAIN aggregated_data_ldj
        /\ \A k \in Keys :
              /\ Len(PerKey(aggregated_data_makespan, k)) = Cardinality(ConsumedOfKey(k))
              /\ Len(PerKey(aggregated_data_distance_travelled, k))
                    = RobotEntries(ConsumedOfKey(k))
              /\ Len(PerKey(aggregated_data_ldj, k)) = RobotEntries(ConsumedOfKey(k))
              /\ (k \in DOMAIN aggregated_data_makespan) = (ConsumedOfKey(k) # {})

\* C24 witness: two files of robot count 2 with seeds 0 and 1 are pooled
\* under key 2, the second holding three robots, next to a file of count 1.
C24_TwoSeedsPooledUnderOneKey ==
    /\ pcMain = "done"
    /\ scenario = "circle"
    /\ Len(files) = 3
    /\ ConsumedOfKey(2) = {1, 3}
    /\ files[1].seed # files[3].seed
    /\ Len(aggregated_data_makespan[2]) = 2
    /\ Len(aggregated_data_distance_travelled[2]) = 5
    /\ Len(aggregated_data_ldj[2]) = 5
    /\ DOMAIN aggregated_data_makespan = {1, 2}

\* no robot of the run is counted: each started at or after the cutoff or
\* is in no goal-area history
NoRobotCounted(rec) ==
    \A i \in 1..Len(rec.robots) :
        \/ rec.robots[i].started_at >= 50
        \/ \A g \in DOMAIN rec.goal_areas :
              rec.robots[i].entity \notin DOMAIN rec.goal_areas[g]

\* the files of the junction batch that are read and hold a run in which no
\* robot is counted
UncountedRuns ==
    {i \in DOMAIN files :
        /\ scenario = "junction"
        /\ files[i].outcome \in {"ok", "ZeroDivisionError"}
        /\ NoRobotCounted(RunRecordOf(files[i]))}

\* C21: in the junction batch a run in which no robot is counted does not
\* give throughput 0: extract_data_from_file fails with a division by zero,
\* the loop of main never gets past that file, nothing is summarised, and
\* when main stops at that file it is with ZeroDivisionError.
C21_NoRobotCountedAbortsBatch ==
    \A i \in UncountedRuns :
        /\ process_file(scenario, files[i]).exception = "ZeroDivisionError"
        /\ next_result <= i
        /\ pcMain # "done"
        /\ ~emitted
        /\ files[i].key \notin DOMAIN aggregated_data
              \/ \A j \in 1..Len(aggregated_data[files[i].key]) :
                     aggregated_data[files[i].key][j] # Num(0)
        /\ (pcMain = "raised" /\ next_result = i) => raised = "ZeroDivisionError"

\* C21 witness: the junction batch aggregated its first file and stopped with
\* ZeroDivisionError at the second, a run whose robots all started at the
\* cutoff, with a third file never consumed.
C21_BatchStoppedAtUncountedRun ==
    /\ scenario = "junction"
    /\ Len(files) = 3
    /\ 2 \in UncountedRuns
    /\ RunRecordOf(files[2]).robots[1].started_at = 50
    /\ pcMain = "raised"
    /\ raised = "ZeroDivisionError"
    /\ next_result = 2
    /\ aggregated_data # <<>>

\* the files with key k and the sum of their values, from the listing
FilesOfKey(k) == {i \in 1..Len(files) : files[i].key = k}

RECURSIVE TotalOver(_, _)
TotalOver(S, field) ==
    IF S = {} THEN Num(0)
    ELSE LET i == CHOOSE x \in S : TRUE
         IN  FAdd(IF field = "makespan" THEN Num(MakespanOf(files[i]))
                  ELSE ThroughputOf(files[i]),
                  TotalOver(S \ {i}, field))

\* the mean of the values of the files with key k
MeanOfKey(k, field) == FDiv(TotalOver(FilesOfKey(k), field), Num(Cardinality(FilesOfKey(k))))

\* the keys in the listing, in ascending order
ListedKeys == SortedSeq({files[i].key : i \in 1..Len(files)})

StatisticNames == {"mean", "median", "min", "max", "variance", "stdev", "count"}

\* the makespans of the files with key k
MakespansOfKey(k) == {MakespanOf(files[i]) : i \in FilesOfKey(k)}

Failing == {i \in DOMAIN files : files[i].outcome # "ok"}

FirstFailing == CHOOSE i \in Failing : \A j \in Failing : i <= j

\* C7: when some file fails, the loop never passes the first failing file,
\* nothing is summarised or plotted, and what main raises is that file's
\* exception.
C7_FailureAbortsBatch ==
    (Failing # {}) =>
        /\ ~emitted
        /\ pcMain # "done"
        /\ next_result <= FirstFailing
        /\ (pcMain = "raised") =>
              /\ raised = files[FirstFailing].outcome
              /\ next_result = FirstFailing

\* the second of three files failed: the first is aggregated, the third,
\* processed without error by a worker, is never consumed
C7_RaisedWithFilesRemaining ==
    /\ pcMain = "raised"
    /\ Len(files) = 3
    /\ files[1].outcome = "ok"
    /\ files[3].outcome = "ok"
    /\ next_result = 2
    /\ raised = files[2].outcome
    /\ futures[3] = "done"

(***************************************************************************)
(* ldj.py: ldj and the loop of main that calls it.  The arithmetic of ldj  *)
(* is floating point: every operation returns the exact result rounded to *)
(* the nearest value with MantissaBits significant bits, ties to even      *)
(* (float64 has 53; the exponent range is not bounded here).               *)
(***************************************************************************)
\* significant bits of the floating-point format
MantissaBits == 3

RECURSIVE Pow2(_)
Pow2(k) == IF k = 0 THEN 1 ELSE 2 * Pow2(k - 1)

RECURSIVE RoundScaled(_, _, _, _)
\* n/d > 0 rounded to MantissaBits bits, times up/down
RoundScaled(n, d, up, down) ==
    IF n >= d * Pow2(MantissaBits) THEN RoundScaled(n, 2 * d, 2 * up, down)
    ELSE IF n < d * Pow2(MantissaBits - 1) THEN RoundScaled(2 * n, d, up, 2 * down)
    ELSE LET q == n \div d
             r == n % d
             m == IF 2 * r > d \/ (2 * r = d /\ q % 2 = 1) THEN q + 1 ELSE q
         IN  Rat(m * up, down)

\* round to nearest, ties to even
Fl(x) ==
    IF ~IsFinite(x) \/ x.n = 0 THEN x
    ELSE LET r == RoundScaled(Abs(x.n), x.d, 1, 1)
         IN  [n |-> Sign(x.n) * r.n, d |-> r.d]

RAdd(x, y) == Fl(FAdd(x, y))

RSub(x, y) == Fl(FSub(x, y))

RMul(x, y) == Fl(FMul(x, y))

RDiv(x, y) == Fl(FDiv(x, y))

RECURSIVE SqrtScaled(_, _, _, _)
\* sqrt(n/d) for n/d > 0, rounded to MantissaBits bits, times up/down
SqrtScaled(n, d, up, down) ==
    IF n >= d * Pow2(2 * MantissaBits) THEN SqrtScaled(n, 4 * d, 2 * up, down)
    ELSE IF n < d * Pow2(2 * MantissaBits - 2) THEN SqrtScaled(4 * n, d, up, 2 * down)
    ELSE LET m == CHOOSE k \in Pow2(MantissaBits - 1)..(Pow2(MantissaBits) - 1) :
                      k * k * d <= n /\ (k + 1) * (k + 1) * d > n
         IN  IF 4 * n > d * (4 * m * m + 4 * m + 1)
             THEN Rat((m + 1) * up, down)
             ELSE Rat(m * up, down)

\* np.sqrt
RSqrt(x) ==
    IF IsNaN(x) \/ FLt(x, Num(0)) THEN NaN
    ELSE IF ~IsFinite(x) \/ x.n = 0 THEN x
    ELSE SqrtScaled(x.n, x.d, 1, 1)

\* An ndarray is its shape and its rows; a one-dimensional array has numbers
\* for rows, a two-dimensional one has tuples.
Array1(seq) == [shape |-> <<Len(seq)>>, data |-> seq]

Array2(rows, cols) == [shape |-> <<Len(rows), cols>>, data |-> rows]

\* len(a)
NpLen(a) == a.shape[1]

\* np.diff of a float sequence
NpDiff(t) == [i \in 1..(Len(t) - 1) |-> RSub(t[i + 1], t[i])]

RECURSIVE NpSumFrom(_, _, _)
NpSumFrom(seq, i, acc) ==
    IF i > Len(seq) THEN acc ELSE NpSumFrom(seq, i + 1, RAdd(acc, seq[i]))

\* np.sum of fewer than 8 numbers: added left to right
NpSum(seq) == NpSumFrom(seq, 1, Num(0))

\* np.mean
NpMean(seq) == RDiv(NpSum(seq), Num(Len(seq)))

Floats(seq) == [i \in 1..Len(seq) |-> Num(seq[i])]

\* assert len(velocities) > 0
AssertNonEmpty(velocities) == NpLen(velocities) > 0

\* assert velocities.shape == (len(velocities), 2)
AssertTwoColumns(velocities) == velocities.shape = <<NpLen(velocities), 2>>

\* assert len(timesteps) == len(velocities)
AssertSameLength(velocities, timesteps) == NpLen(timesteps) = NpLen(velocities)

\* every assertion holds
AssertSkipped(timesteps) == TRUE

\* assert np.all(np.diff(timesteps) > 0): the difference runs along the last
\* axis, which for an (N, 1) array has nothing to compare
AssertIncreasing(timesteps) ==
    IF Len(timesteps.shape) = 1
    THEN \A i \in 1..(Len(timesteps.data) - 1) :
             timesteps.data[i + 1] > timesteps.data[i]
    ELSE TRUE

\* assert timesteps.shape == (len(timesteps),)
AssertOneDimensional(timesteps) == timesteps.shape = <<NpLen(timesteps)>>

\* assert t_start < t_final
AssertStartBeforeFinal(timesteps) ==
    timesteps.data[1] < timesteps.data[Len(timesteps.data)]

\* the assertions of ldj in their order; 0 when all of them hold, else the
\* source line of the first that fails
FailedAssertion(velocities, timesteps) ==
    IF ~AssertNonEmpty(velocities) THEN 23
    ELSE IF ~AssertTwoColumns(velocities) THEN 24
    ELSE IF ~AssertSameLength(velocities, timesteps) THEN 25
    ELSE IF ~AssertIncreasing(timesteps) THEN 26
    ELSE IF ~AssertOneDimensional(timesteps) THEN 27
    ELSE IF ~AssertStartBeforeFinal(timesteps) THEN 31
    ELSE 0

\* np.gradient(f, dx) for len(f) >= 2: central differences inside, one-sided
\* first differences at the two ends
NpGradient(f, dx) ==
    LET N == Len(f)
    IN  [i \in 1..N |->
            IF i = 1 THEN RDiv(RSub(f[2], f[1]), dx)
            ELSE IF i = N THEN RDiv(RSub(f[N], f[N - 1]), dx)
            ELSE RDiv(RSub(f[i + 1], f[i - 1]), RMul(Num(2), dx))]

\* np.linspace(start, stop, num) for num >= 2
NpLinspace(start, stop, num) ==
    LET step == RDiv(RSub(stop, start), Num(num - 1))
    IN  [i \in 1..num |->
            IF i = num THEN stop ELSE RAdd(RMul(Num(i - 1), step), start)]

\* np.true_divide(a, b, out=zeros, where=b != 0)
DivideWhere(a, b) == IF b = Num(0) THEN Num(0) ELSE RDiv(a, b)

\* one parabola of scipy's _basic_simpson over x[i], x[i+1], x[i+2] with
\* unequal intervals
SimpsonPanel(y, x, i) ==
    LET h0 == RSub(x[i + 1], x[i])
        h1 == RSub(x[i + 2], x[i + 1])
        hsum == RAdd(h0, h1)
        hprod == RMul(h0, h1)
        h0divh1 == DivideWhere(h0, h1)
    IN  RMul(RDiv(hsum, Num(6)),
             RAdd(RAdd(RMul(y[i], RSub(Num(2), DivideWhere(Num(1), h0divh1))),
                       RMul(y[i + 1], RMul(hsum, DivideWhere(hsum, hprod)))),
                  RMul(y[i + 2], RSub(Num(2), h0divh1))))

\* _basic_simpson over the first `points` samples (an odd number)
BasicSimpson(y, x, points) ==
    NpSum([k \in 1..((points - 1) \div 2) |-> SimpsonPanel(y, x, 2 * k - 1)])

\* scipy.integrate.simpson(y, x=x): two samples make a trapezoid; an odd
\* number of samples is covered by parabolas; an even number (scipy 1.11 and
\* later) adds a corrected last interval to the parabolas over the others
simpson(y, x) ==
    LET N == Len(y)
    IN  IF N = 2
        THEN RMul(RMul(Rat(1, 2), RSub(x[2], x[1])), RAdd(y[2], y[1]))
        ELSE IF N % 2 = 1 THEN BasicSimpson(y, x, N)
        ELSE LET h0 == RSub(x[N - 1], x[N - 2])
                 h1 == RSub(x[N], x[N - 1])
                 alpha == RDiv(RAdd(RMul(Num(2), RMul(h1, h1)),
                                    RMul(RMul(Num(3), h0), h1)),
                               RMul(Num(6), RAdd(h1, h0)))
                 beta == RDiv(RAdd(RMul(h1, h1), RMul(RMul(Num(3), h0), h1)),
                              RMul(Num(6), h0))
                 eta == RDiv(Fl(FMul(h1, FMul(h1, h1))),
                             RMul(RMul(Num(6), h0), RAdd(h0, h1)))
             IN  RAdd(BasicSimpson(y, x, N - 1),
                      RSub(RAdd(RMul(alpha, y[N]), RMul(beta, y[N - 1])),
                           RMul(eta, y[N - 2])))

RECURSIVE NpMaxFrom(_, _, _)
NpMaxFrom(seq, i, acc) ==
    IF i > Len(seq) THEN acc
    ELSE IF IsNaN(acc) \/ IsNaN(seq[i]) THEN NaN
    ELSE NpMaxFrom(seq, i + 1, IF FLt(acc, seq[i]) THEN seq[i] ELSE acc)

\* np.max of a non-empty sequence; a nan wins
NpMax(seq) == NpMaxFrom(seq, 2, seq[1])

\* -np.log(a), kept as its argument: +inf for a = 0, -inf for a = +inf, nan
\* for a nan or negative a
NegLog(a) == [neglog |-> a]

Returned(value) == [raised |-> "none", line |-> 0, value |-> value]

Raised(exception, line) == [raised |-> exception, line |-> line, value |-> NegLog(NaN)]

\* dt: float = np.mean(np.diff(timesteps))
SamplingInterval(timesteps) == NpMean(NpDiff(Floats(timesteps.data)))

\* the integration runs over the timestamps as given
GivenTimes(timesteps, num) == Floats(timesteps.data)

\* time_samples = np.linspace(t_start, t_final, len(velocities))
TimeSamples(timesteps, num) ==
    NpLinspace(Num(timesteps.data[1]), Num(timesteps.data[Len(timesteps.data)]), num)

\* the speed along the first axis alone
SpeedAlongX(x, y) == RSqrt(RMul(x, x))

\* np.sqrt(vx**2 + vy**2), one sample
Speed(x, y) == RSqrt(RAdd(RMul(x, x), RMul(y, y)))

\* integral_squared_jerk = simpson(squared_jerk, x=time_samples)
IntegralSquaredJerk(velocities, timesteps) ==
    LET N == NpLen(velocities)
        dt == SamplingInterval(timesteps)
        vx == [i \in 1..N |-> Num(velocities.data[i][1])]
        vy == [i \in 1..N |-> Num(velocities.data[i][2])]
        jx == NpGradient(NpGradient(vx, dt), dt)
        jy == NpGradient(NpGradient(vy, dt), dt)
        squared_jerk == [i \in 1..N |-> RAdd(RMul(jx[i], jx[i]), RMul(jy[i], jy[i]))]
        time_samples == TimeSamples(timesteps, N)
    IN  simpson(squared_jerk, time_samples)

\* v_max = np.max(np.sqrt(vx**2 + vy**2))
PeakSpeed(velocities) ==
    NpMax([i \in 1..NpLen(velocities) |->
              Speed(Num(velocities.data[i][1]), Num(velocities.data[i][2]))])

\* the body of ldj after its assertions
LdjValue(velocities, timesteps) ==
    LET t_start == Num(timesteps.data[1])
        t_final == Num(timesteps.data[Len(timesteps.data)])
        integral_squared_jerk == IntegralSquaredJerk(velocities, timesteps)
        v_max == PeakSpeed(velocities)
        T == RSub(t_final, t_start)
    IN  NegLog(RMul(RDiv(Fl(FMul(T, FMul(T, T))), RMul(v_max, v_max)),
                    integral_squared_jerk))

\* a number that is neither nan nor infinite
IsFiniteLdj(value) == IsFinite(value.neglog) /\ FGt(value.neglog, Num(0))

\* ldj with a guard: a value that is not finite is an error
ldjGuarded(velocities, timesteps) ==
    IF FailedAssertion(velocities, timesteps) # 0
    THEN Raised("AssertionError", FailedAssertion(velocities, timesteps))
    ELSE IF NpLen(velocities) < 2
    THEN Raised("ValueError", 39)
    ELSE IF ~IsFiniteLdj(LdjValue(velocities, timesteps))
    THEN Raised("ValueError", 57)
    ELSE Returned(LdjValue(velocities, timesteps))

\* ldj(velocities, timesteps): the value returned or the exception raised
ldj(velocities, timesteps) ==
    IF FailedAssertion(velocities, timesteps) # 0
    THEN Raised("AssertionError", FailedAssertion(velocities, timesteps))
    ELSE IF NpLen(velocities) < 2
    THEN Raised("ValueError", 39)
    ELSE Returned(LdjValue(velocities, timesteps))

\* most samples in a trace
MaxSamples == 3

TimeValues == {3, 5, 8, 10, 16}

VelocityRows == {<<0, 0>>, <<1, 0>>, <<0, 2>>}

TimeSeqs == UNION {[1..n -> TimeValues] : n \in 0..MaxSamples}

VelocitySeqs == UNION {[1..n -> VelocityRows] : n \in 0..MaxSamples}

\* velocities that are not N-by-2: three columns, one column, one dimension
OtherVelocities ==
    {Array2(<<<<1, 0, 0>>, <<0, 0, 2>>>>, 3), Array2(<<<<1>>, <<2>>>>, 1),
     Array1(<<1, 2>>)}

\* timestamps given as a column
OtherTimesteps == {[shape |-> <<2, 1>>, data |-> <<<<3>>, <<5>>>>]}

VelocityArrays == {Array2(v, 2) : v \in VelocitySeqs} \cup OtherVelocities

TimestepArrays == {Array1(t) : t \in TimeSeqs} \cup OtherTimesteps

Increasing(t) == \A i \in 1..(Len(t) - 1) : t[i] < t[i + 1]

\* one call with any arguments, or two calls on the same velocities with
\* strictly increasing timestamps
LdjArguments ==
    {<<[velocities |-> v, timesteps |-> t]>> : v \in VelocityArrays, t \in TimestepArrays}
    \cup
    UNION {{<<[velocities |-> Array2(v, 2), timesteps |-> Array1(t1)],
              [velocities |-> Array2(v, 2), timesteps |-> Array1(t2)]>> :
                v \in {w \in VelocitySeqs : Len(w) = n},
                t1 \in {u \in TimeSeqs : Len(u) = n /\ Increasing(u)},
                t2 \in {u \in TimeSeqs : Len(u) = n /\ Increasing(u)}} :
           n \in 2..MaxSamples}

InitLdj ==
    /\ ParkedProj
    /\ ParkedDev
    /\ ParkedJunction
    /\ ParkedBatch
    /\ ParkedRuns
    /\ ParkedFile
    /\ ParkedStats
    /\ ldj_args \in LdjArguments
    /\ ldj_results = <<>>

NextCall == ldj_args[Len(ldj_results) + 1]

\* the call raises
LdjRaise ==
    /\ Len(ldj_results) < Len(ldj_args)
    /\ ldj(NextCall.velocities, NextCall.timesteps).raised # "none"
    /\ ldj_results' = Append(ldj_results, ldj(NextCall.velocities, NextCall.timesteps))
    /\ UNCHANGED ldj_args
    /\ UNCHANGED exceptLdj

\* the call returns a value
LdjReturn ==
    /\ Len(ldj_results) < Len(ldj_args)
    /\ ldj(NextCall.velocities, NextCall.timesteps).raised = "none"
    /\ ldj_results' = Append(ldj_results, ldj(NextCall.velocities, NextCall.timesteps))
    /\ UNCHANGED ldj_args
    /\ UNCHANGED exceptLdj

NextLdj ==
    \/ LdjRaise
    \/ LdjReturn

SpecLdj == InitLdj /\ [][NextLdj]_vars

(***************************************************************************)
(* Properties of ldj.                                                      *)
(***************************************************************************)
Calls == 1..Len(ldj_results)

First(t) == t.data[1]

Last(t) == t.data[Len(t.data)]

\* two completed calls that returned, on the same velocities, with the same
\* number of samples and the same first and last timestamp
SameEnds(i, j) ==
    /\ ldj_results[i].raised = "none"
    /\ ldj_results[j].raised = "none"
    /\ ldj_args[i].velocities = ldj_args[j].velocities
    /\ NpLen(ldj_args[i].timesteps) = NpLen(ldj_args[j].timesteps)
    /\ First(ldj_args[i].timesteps) = First(ldj_args[j].timesteps)
    /\ Last(ldj_args[i].timesteps) = Last(ldj_args[j].timesteps)

RECURSIVE SumIsExact(_, _, _)
\* the differences of t and their running sum from the i-th on are
\* representable, so that no addition or subtraction rounds
SumIsExact(t, i, acc) ==
    IF i >= Len(t) THEN TRUE
    ELSE /\ Fl(Num(t[i + 1] - t[i])) = Num(t[i + 1] - t[i])
         /\ Fl(Num(acc + t[i + 1] - t[i])) = Num(acc + t[i + 1] - t[i])
         /\ SumIsExact(t, i + 1, acc + t[i + 1] - t[i])

\* (t_final - t_start) / (N - 1)
SpanOverIntervals(t) ==
    RDiv(RSub(Num(Last(t)), Num(First(t))), Num(NpLen(t) - 1))

FewerThanTwoSamples(a) == NpLen(a.velocities) < 2 \/ NpLen(a.timesteps) < 2

DifferentLengths(a) == NpLen(a.velocities) # NpLen(a.timesteps)

NotStrictlyIncreasing(a) ==
    /\ Len(a.timesteps.shape) = 1
    /\ \E k \in 1..(Len(a.timesteps.data) - 1) :
           a.timesteps.data[k + 1] <= a.timesteps.data[k]

NotNByTwo(a) == Len(a.velocities.shape) # 2 \/ a.velocities.shape[2] # 2

\* C10: a call with fewer than 2 samples, with sequences of different
\* lengths, with timestamps that do not strictly increase or with velocities
\* that are not N-by-2 ends in a failed assertion and returns nothing.
C10_PreconditionViolationAsserts ==
    \A i \in Calls :
        (\/ FewerThanTwoSamples(ldj_args[i])
         \/ DifferentLengths(ldj_args[i])
         \/ NotStrictlyIncreasing(ldj_args[i])
         \/ NotNByTwo(ldj_args[i]))
            => ldj_results[i].raised = "AssertionError"

\* a single sample with its single timestamp passes the first five
\* assertions and fails the last
C10_SingleSampleAsserts ==
    /\ Len(ldj_results) = 1
    /\ ldj_args[1].velocities.shape = <<1, 2>>
    /\ ldj_args[1].timesteps.shape = <<1>>
    /\ ldj_results[1].raised = "AssertionError"
    /\ ldj_results[1].line = 31

\* the rows of a trace are one velocity, and it is not zero
ConstantNonZero(velocities) ==
    /\ Len(velocities.shape) = 2
    /\ velocities.shape[2] = 2
    /\ \A k \in 1..Len(velocities.data) : velocities.data[k] = velocities.data[1]
    /\ Len(velocities.data) >= 1
    /\ velocities.data[1] # <<0, 0>>

PlusInfinity == NegLog(Num(0))

\* C11: a call of ldj that returns on a trace of constant non-zero velocity
\* returns +infinity (the negated logarithm of an exact zero), never nan.
C11_ConstantVelocityGivesPlusInfinity ==
    \A i \in Calls :
        (/\ ldj_results[i].raised = "none"
         /\ ConstantNonZero(ldj_args[i].velocities))
        => /\ ldj_results[i].value = PlusInfinity
           /\ ~IsNaN(ldj_results[i].value.neglog)

\* C11 witness: three samples of the velocity (0, 2) have been given to ldj,
\* which returned +infinity.
C11_ConstantTraceReturned ==
    \E i \in Calls :
        /\ ldj_results[i].raised = "none"
        /\ ConstantNonZero(ldj_args[i].velocities)
        /\ Len(ldj_args[i].velocities.data) = 3
        /\ ldj_args[i].velocities.data[1] = <<0, 2>>
        /\ ldj_results[i].value = PlusInfinity

(***************************************************************************)
(* The per-robot loops: process_file of analyse-circle-scenario.py         *)
(* (distance travelled and LDJ of each robot) and main of                  *)
(* perpendicular-path-deviation.py (RMSE of each robot), run over two run  *)
(* records side by side.                                                   *)
(***************************************************************************)
Sample(t, x, y, z) == [timestamp |-> t, velocity |-> <<x, y, z>>]

\* a velocity of the flat schema, the list [vx, vy]
FlatSample(x, y) == [list |-> <<x, y>>]

\* measurement['timestamp'] and measurement['velocity'] can be read: every
\* measurement is an object with these keys, not a list
Timestamped(robot_data) ==
    \A i \in 1..Len(robot_data.velocities) :
        {"timestamp", "velocity"} \subseteq DOMAIN robot_data.velocities[i]

\* robot_data of one robot: positions, velocity measurements, waypoints
RobotData ==
    {[positions |-> <<<<5, 1>>, <<5, -1>>>>,
      velocities |-> <<Sample(3, 0, 7, 0), Sample(8, 1, 7, 0), Sample(16, 0, 7, 0)>>,
      waypoints |-> <<<<0, 0>>, <<10, 0>>>>],
     [positions |-> <<<<5, 0>>, <<5, 1>>, <<5, -1>>>>,
      velocities |-> <<Sample(3, 1, 0, 0), Sample(5, 0, 0, 2), Sample(16, 1, 0, 0)>>,
      waypoints |-> <<<<0, 0>>, <<5, 12>>, <<10, 0>>>>],
     [positions |-> <<<<0, 0>>, <<5, 0>>>>,
      velocities |-> <<Sample(3, 1, 0, 0)>>,
      waypoints |-> <<<<0, 0>>, <<10, 0>>>>],
     [positions |-> <<<<5, 0>>>>,
      velocities |-> <<Sample(3, 0, 0, 0), Sample(10, 0, 0, 2)>>,
      waypoints |-> <<<<5, 0>>>>],
     [positions |-> <<<<5, 0>>, <<5, 0>>>>,
      velocities |-> <<Sample(3, 0, 7, 0), Sample(5, 0, 7, 0), Sample(10, 0, 7, 0)>>,
      waypoints |-> <<<<0, 0>>, <<10, 0>>>>],
     [positions |-> <<<<0, 0>>, <<5, 0>>>>,
      velocities |-> <<FlatSample(0, 0), FlatSample(1, 0), FlatSample(0, 0)>>,
      waypoints |-> <<<<0, 0>>, <<10, 0>>>>]}

\* data['robots'] of a run record, in the order of the file
RunRecords == UNION {[1..n -> RobotData] : n \in 1..MaxRobots}

Runs == {1, 2}

\* np.sum(np.linalg.norm(np.diff(positions, axis=0), axis=1))
RECURSIVE DistanceTravelledFrom(_, _)
DistanceTravelledFrom(ps, i) ==
    IF i >= Len(ps) THEN Num(0)
    ELSE FAdd(NormValue(Norm(VSub(Vec(ps[i + 1]), Vec(ps[i])))),
              DistanceTravelledFrom(ps, i + 1))

\* timestamps = np.array([measurement['timestamp'] for measurement in ...])
TimestampsOf(robot_data) ==
    Array1([i \in 1..Len(robot_data.velocities) |-> robot_data.velocities[i].timestamp])

\* velocities = velocities3d_bevy[:, [0, 2]]
VelocitiesOf(robot_data) ==
    Array2([i \in 1..Len(robot_data.velocities) |->
               <<robot_data.velocities[i].velocity[1],
                 robot_data.velocities[i].velocity[3]>>], 2)

\* the robot that the loop of process_file is at in run r
CircleRobot(r) == run_records[r][circle_next[r]]

\* distance_travelled += ..., carried over from the robot before
RobotDistanceAccumulated(r) ==
    FAdd(distance_travelled[r], DistanceTravelledFrom(CircleRobot(r).positions, 1))

\* distance_travelled = np.sum(...)
RobotDistance(r) == DistanceTravelledFrom(CircleRobot(r).positions, 1)

\* the two comprehensions over robot_data['velocities'] and
\* ldj(velocities, timestamps), with the flat schema recognised: the rows are
\* taken as they are and the timestamps are the sample numbers
LdjNormalised(d) ==
    IF Timestamped(d) THEN ldj(VelocitiesOf(d), TimestampsOf(d))
    ELSE ldj(Array2([i \in 1..Len(d.velocities) |-> d.velocities[i].list], 2),
             Array1([i \in 1..Len(d.velocities) |-> i]))

\* the two comprehensions over robot_data['velocities'] and
\* ldj(velocities, timestamps): indexing a list with 'timestamp' raises
\* TypeError
LdjOfRobot(d) ==
    IF Timestamped(d) THEN ldj(VelocitiesOf(d), TimestampsOf(d))
    ELSE Raised("TypeError", 89)

\* LdjOfRobot tabulated over the robots of the records
LdjByRobot == [d \in RobotData |-> LdjOfRobot(d)]

\* metric = ldj(velocities, timestamps)
RobotLdj(r) == LdjByRobot[CircleRobot(r)]

\* the robot that the loop of perpendicular-path-deviation.py is at in run r
DevRobot(r) == run_records[r][dev_next[r]]

\* what the body of the loop raises for the robot: TypeError for a single
\* waypoint (np.squeeze), ValueError for no segment (min of nothing)
DeviationRaises(robot_data) ==
    IF Len(robot_data.waypoints) = 1 THEN "TypeError"
    ELSE IF LinesOf(robot_data.waypoints) = <<>> THEN "ValueError"
    ELSE "none"

\* rmse of the robot
RobotRmse(robot_data) ==
    LET ls == LinesOf(robot_data.waypoints)
        cps == [i \in 1..Len(robot_data.positions) |->
                   dev_closest_projection_onto_line_segments(
                       Vec(robot_data.positions[i]), ls)]
    IN  NpSqrt(FDiv(SumOfDistances(robot_data.positions, cps, 1),
                    Num(Len(robot_data.positions))))

\* the loop body of perpendicular-path-deviation.py tabulated over the robots
\* of the records: the exception raised and the rmse
DeviationByRobot ==
    [d \in RobotData |->
        [raised |-> DeviationRaises(d),
         rmse |-> IF DeviationRaises(d) = "none" THEN RobotRmse(d) ELSE NoNorm]]

InitRuns ==
    /\ ParkedProj
    /\ ParkedDev
    /\ ParkedJunction
    /\ ParkedBatch
    /\ ParkedLdj
    /\ ParkedFile
    /\ ParkedStats
    /\ run_records \in [Runs -> RunRecords]
    /\ circle_next = [r \in Runs |-> 1]
    /\ distance_travelled = [r \in Runs |-> Num(0)]
    /\ circle_out = [r \in Runs |-> [distance_travelled_of_each_robot |-> <<>>,
                                     ldj_of_each_robot |-> <<>>]]
    /\ circle_status = [r \in Runs |-> "loop"]
    /\ dev_next = [r \in Runs |-> 1]
    /\ dev_out = [r \in Runs |-> <<>>]
    /\ dev_status = [r \in Runs |-> "loop"]

\* one pass of the loop of process_file: the distance is appended, then ldj
\* is called and its value appended
ProcessFileRobot(r) ==
    /\ circle_status[r] = "loop"
    /\ circle_next[r] <= Len(run_records[r])
    /\ RobotLdj(r).raised = "none"
    /\ distance_travelled' = [distance_travelled EXCEPT ![r] = RobotDistance(r)]
    /\ circle_out' = [circle_out EXCEPT ![r] =
           [distance_travelled_of_each_robot |->
                Append(@.distance_travelled_of_each_robot, RobotDistance(r)),
            ldj_of_each_robot |-> Append(@.ldj_of_each_robot, RobotLdj(r).value)]]
    /\ circle_next' = [circle_next EXCEPT ![r] = @ + 1]
    /\ UNCHANGED <<run_records, circle_status, dev_next, dev_out, dev_status>>
    /\ UNCHANGED exceptRuns

\* the pass in which ldj raises: the distance is already appended, the
\* exception leaves process_file
ProcessFileRaise(r) ==
    /\ circle_status[r] = "loop"
    /\ circle_next[r] <= Len(run_records[r])
    /\ RobotLdj(r).raised # "none"
    /\ distance_travelled' = [distance_travelled EXCEPT ![r] = RobotDistance(r)]
    /\ circle_out' = [circle_out EXCEPT ![r].distance_travelled_of_each_robot =
           Append(@, RobotDistance(r))]
    /\ circle_status' = [circle_status EXCEPT ![r] = RobotLdj(r).raised]
    /\ UNCHANGED <<run_records, circle_next, dev_next, dev_out, dev_status>>
    /\ UNCHANGED exceptRuns

\* return num_robots, distance_travelled_of_each_robot, makespan, ldj_of_each_robot
ProcessFileReturn(r) ==
    /\ circle_status[r] = "loop"
    /\ circle_next[r] > Len(run_records[r])
    /\ circle_status' = [circle_status EXCEPT ![r] = "returned"]
    /\ UNCHANGED <<run_records, circle_next, distance_travelled, circle_out,
                   dev_next, dev_out, dev_status>>
    /\ UNCHANGED exceptRuns

\* one pass of the loop of perpendicular-path-deviation.py:
\* rmse_of_each_robot[robot_id] = rmse
DeviationRobot(r) ==
    /\ dev_status[r] = "loop"
    /\ dev_next[r] <= Len(run_records[r])
    /\ DeviationByRobot[DevRobot(r)].raised = "none"
    /\ dev_out' = [dev_out EXCEPT ![r] = Append(@, DeviationByRobot[DevRobot(r)].rmse)]
    /\ dev_next' = [dev_next EXCEPT ![r] = @ + 1]
    /\ UNCHANGED <<run_records, circle_next, distance_travelled, circle_out,
                   circle_status, dev_status>>
    /\ UNCHANGED exceptRuns

\* the pass that raises
DeviationRaise(r) ==
    /\ dev_status[r] = "loop"
    /\ dev_next[r] <= Len(run_records[r])
    /\ DeviationByRobot[DevRobot(r)].raised # "none"
    /\ dev_status' = [dev_status EXCEPT ![r] = DeviationByRobot[DevRobot(r)].raised]
    /\ UNCHANGED <<run_records, circle_next, distance_travelled, circle_out,
                   circle_status, dev_next, dev_out>>
    /\ UNCHANGED exceptRuns

\* the loop is over; the statistics of the run follow
DeviationLoopEnd(r) ==
    /\ dev_status[r] = "loop"
    /\ dev_next[r] > Len(run_records[r])
    /\ dev_status' = [dev_status EXCEPT ![r] = "statistics"]
    /\ UNCHANGED <<run_records, circle_next, distance_travelled, circle_out,
                   circle_status, dev_next, dev_out>>
    /\ UNCHANGED exceptRuns

NextRuns ==
    \E r \in Runs :
        \/ ProcessFileRobot(r)
        \/ ProcessFileRaise(r)
        \/ ProcessFileReturn(r)
        \/ DeviationRobot(r)
        \/ DeviationRaise(r)
        \/ DeviationLoopEnd(r)

SpecRuns == InitRuns /\ [][NextRuns]_vars

MeetsPreconditions(robot_data) ==
    /\ Timestamped(robot_data)
    /\ FailedAssertion(VelocitiesOf(robot_data), TimestampsOf(robot_data)) = 0
    /\ NpLen(VelocitiesOf(robot_data)) >= 2

\* v_max == 0 or J == 0 for the trace of a robot
ZeroSpeedOrJerk(robot_data) ==
    \/ FEq(PeakSpeed(VelocitiesOf(robot_data)), Num(0))
    \/ FEq(IntegralSquaredJerk(VelocitiesOf(robot_data), TimestampsOf(robot_data)),
           Num(0))

\* the robots of the records whose trace is valid with v_max == 0 or J == 0
Unguarded == {d \in RobotData : MeetsPreconditions(d) /\ ZeroSpeedOrJerk(d)}

\* C12: ldj has no guard for v_max == 0 or J == 0. The loop of process_file
\* never stops with an exception at a robot whose trace meets the
\* preconditions and has zero peak speed or zero integrated squared jerk,
\* and the value appended to ldj_of_each_robot for such a robot is not a
\* finite number.
C12_NoGuardForZeroSpeedOrJerk ==
    \A r \in Runs :
        /\ (circle_status[r] \notin {"loop", "returned"})
              => run_records[r][circle_next[r]] \notin Unguarded
        /\ \A i \in 1..Len(circle_out[r].ldj_of_each_robot) :
              run_records[r][i] \in Unguarded
                 => ~IsFiniteLdj(circle_out[r].ldj_of_each_robot[i])

\* C12 witness: process_file has returned for a run whose first robot never
\* moves in the plane (v_max == 0, value nan) and whose second robot has two
\* samples only (J == 0, value +infinity).
C12_NonFiniteValuesReturned ==
    /\ circle_status[1] = "returned"
    /\ Len(circle_out[1].ldj_of_each_robot) = 2
    /\ run_records[1][1] \in Unguarded
    /\ run_records[1][2] \in Unguarded
    /\ IsNaN(circle_out[1].ldj_of_each_robot[1].neglog)
    /\ circle_out[1].ldj_of_each_robot[2] = PlusInfinity

\* the trace of a robot in either schema, brought to one representation,
\* meets the preconditions of ldj
WellFormedTrace(robot_data) == LdjNormalised(robot_data).raised = "none"

WellFormed == {d \in RobotData : WellFormedTrace(d)}

\* C15: a record in either velocity schema yields an LDJ value: the loop of
\* process_file never stops with an exception at a robot whose trace, flat
\* or timestamped, is well formed, and appends a value for it.
C15_EitherSchemaYieldsLdj ==
    \A r \in Runs :
        (circle_status[r] \notin {"loop", "returned"})
            => run_records[r][circle_next[r]] \notin WellFormed

\* process_file has stopped with TypeError at a robot recorded in the flat
\* schema
C15_FlatSchemaRaised ==
    \E r \in Runs :
        /\ circle_status[r] = "TypeError"
        /\ ~Timestamped(run_records[r][circle_next[r]])
        /\ run_records[r][circle_next[r]] \in WellFormed

(***************************************************************************)
(* The grouping key of a file: RE and process_file of                      *)
(* analyse-circle-scenario.py, process_file of analyse-junction-scenario.py *)
(* and the glob of either main.  A file name is a sequence of characters.  *)
(***************************************************************************)
NumRobotsLit == <<"n", "u", "m", "-", "r", "o", "b", "o", "t", "s", "-">>

SeedLit == <<"-", "s", "e", "e", "d", "-">>

JsonLit == <<"j", "s", "o", "n">>

DotJson == <<".">> \o JsonLit

QinLit == <<"q", "i", "n", "-">>

DigitChars == {"0", "1", "2", "3", "4", "5", "6", "7", "8", "9"}

DigitValue(c) ==
    CASE c = "0" -> 0 [] c = "1" -> 1 [] c = "2" -> 2 [] c = "3" -> 3
      [] c = "4" -> 4 [] c = "5" -> 5 [] c = "6" -> 6 [] c = "7" -> 7
      [] c = "8" -> 8 [] c = "9" -> 9

\* the literal lit stands in s at position i
StartsWith(s, i, lit) ==
    /\ i + Len(lit) - 1 <= Len(s)
    /\ \A j \in 1..Len(lit) : s[i + j - 1] = lit[j]

EndsWith(s, lit) == Len(s) >= Len(lit) /\ StartsWith(s, Len(s) - Len(lit) + 1, lit)

\* how many digits stand in s from position i on
RECURSIVE DigitRun(_, _)
DigitRun(s, i) ==
    IF i <= Len(s) /\ s[i] \in DigitChars THEN 1 + DigitRun(s, i + 1) ELSE 0

\* int(digits)
RECURSIVE IntOf(_)
IntOf(ds) ==
    IF ds = <<>> THEN 0
    ELSE 10 * IntOf(SubSeq(ds, 1, Len(ds) - 1)) + DigitValue(ds[Len(ds)])

SetMax(S) == CHOOSE m \in S : \A x \in S : x <= m

RECURSIVE Pow10(_)
Pow10(k) == IF k = 0 THEN 1 ELSE 10 * Pow10(k - 1)

\* the pattern with its dot escaped and its end anchored:
\* num-robots-<N>-seed-<S>.json and nothing else
RE_fullmatch(name) ==
    LET a == Len(NumRobotsLit) + 1
        n1 == DigitRun(name, a)
        c == a + n1 + Len(SeedLit)
        n2 == DigitRun(name, c)
    IN  IF /\ StartsWith(name, 1, NumRobotsLit)
           /\ n1 >= 1
           /\ StartsWith(name, a + n1, SeedLit)
           /\ n2 >= 1
           /\ SubSeq(name, c + n2, Len(name)) = DotJson
        THEN [matched |-> TRUE, group1 |-> SubSeq(name, a, a + n1 - 1),
              group2 |-> SubSeq(name, c, c + n2 - 1)]
        ELSE [matched |-> FALSE, group1 |-> <<>>, group2 |-> <<>>]

\* RE.match(file.name) for RE = re.compile(r"num-robots-(\d+)-seed-(\d+).json"):
\* the match starts at the first character and may end before the last, the
\* dot stands for any character but a newline, and the second group gives
\* digits back until the rest matches
RE_match(name) ==
    LET a == Len(NumRobotsLit) + 1
        n1 == DigitRun(name, a)
        c == a + n1 + Len(SeedLit)
        n2 == DigitRun(name, c)
        ks == {k \in 1..n2 : /\ c + k <= Len(name)
                             /\ name[c + k] # "\n"
                             /\ StartsWith(name, c + k + 1, JsonLit)}
    IN  IF /\ StartsWith(name, 1, NumRobotsLit)
           /\ n1 >= 1
           /\ StartsWith(name, a + n1, SeedLit)
           /\ ks # {}
        THEN [matched |-> TRUE, group1 |-> SubSeq(name, a, a + n1 - 1),
              group2 |-> SubSeq(name, c, c + SetMax(ks) - 1)]
        ELSE [matched |-> FALSE, group1 |-> <<>>, group2 |-> <<>>]

\* file.stem: the name without its last suffix
Stem(name) ==
    LET dots == {i \in 2..(Len(name) - 1) : name[i] = "."}
    IN  IF dots = {} THEN name ELSE SubSeq(name, 1, SetMax(dots) - 1)

Dashes(s) == {i \in 1..Len(s) : s[i] = "-"}

\* s.split('-')[1] where there is a dash in s
SecondField(s) ==
    LET first == CHOOSE i \in Dashes(s) : \A j \in Dashes(s) : i <= j
        later == {i \in Dashes(s) : i > first}
        stop == IF later = {} THEN Len(s) + 1
                ELSE CHOOSE i \in later : \A j \in later : i <= j
    IN  SubSeq(s, first + 1, stop - 1)

\* a decimal numeral: digits with at most one point among them
IsDecimal(f) ==
    /\ \A i \in 1..Len(f) : f[i] \in DigitChars \cup {"."}
    /\ Cardinality({i \in 1..Len(f) : f[i] = "."}) <= 1
    /\ \E i \in 1..Len(f) : f[i] \in DigitChars

\* the value of a decimal numeral
DecimalValue(f) ==
    LET ds == SelectSeq(f, LAMBDA ch : ch \in DigitChars)
        points == {i \in 1..Len(f) : f[i] = "."}
        places == IF points = {} THEN 0 ELSE Len(f) - SetMax(points)
    IN  Rat(IntOf(ds), Pow10(places))

NanWord == <<"n", "a", "n">>

\* float(field) for a field of digits, points and small letters
FloatOf(f) ==
    IF IsDecimal(f) THEN [raised |-> "none", key |-> DecimalValue(f)]
    ELSE IF f = NanWord THEN [raised |-> "none", key |-> NaN]
    ELSE [raised |-> "ValueError", key |-> NaN]

\* the first statements of process_file of analyse-circle-scenario.py:
\* match = RE.match(file.name); assert match is not None;
\* num_robots = int(match.group(1))
CircleKey(name) ==
    IF RE_match(name).matched
    THEN [raised |-> "none", key |-> Num(IntOf(RE_match(name).group1))]
    ELSE [raised |-> "AssertionError", key |-> NaN]

\* qin_value = float(file.stem.split('-')[1])
JunctionKey(name) ==
    IF Dashes(Stem(name)) = {} THEN [raised |-> "IndexError", key |-> NaN]
    ELSE FloatOf(SecondField(Stem(name)))

KeyOf(sc, name) == IF sc = "circle" THEN CircleKey(name) ELSE JunctionKey(name)

\* RESULTS_DIR.glob('*.json') and RESULTS_DIR.glob('qin-*.json')
Globbed(sc, name) ==
    IF sc = "circle" THEN EndsWith(name, DotJson)
    ELSE /\ StartsWith(name, 1, QinLit)
         /\ EndsWith(name, DotJson)
         /\ Len(name) >= Len(QinLit) + Len(DotJson)

\* the names in the results directory
NameHeads == {NumRobotsLit, QinLit, <<"q", "i", "n">>}

NameFields == {<<>>, <<"2">>, <<"1", "0">>, <<"1", ".", "5">>, NanWord}

NameMids == {SeedLit, <<"-">>, <<>>}

NameTails ==
    {DotJson, DotJson \o DotJson, <<"x">> \o JsonLit \o DotJson, JsonLit \o DotJson,
     JsonLit, <<".", "j", "s", "o">>}

FileNameSet ==
    {h \o f1 \o m \o f2 \o t :
        h \in NameHeads, f1 \in NameFields, m \in NameMids, f2 \in NameFields,
        t \in NameTails}

InitFile ==
    /\ ParkedProj
    /\ ParkedDev
    /\ ParkedJunction
    /\ ParkedBatch
    /\ ParkedLdj
    /\ ParkedRuns
    /\ ParkedStats
    /\ file_scenario \in Scenarios
    /\ file_name \in FileNameSet
    /\ file_result = <<>>
    /\ pcFile = "glob"

\* the glob of main does not yield the file
GlobSkips ==
    /\ pcFile = "glob"
    /\ ~Globbed(file_scenario, file_name)
    /\ pcFile' = "skipped"
    /\ UNCHANGED <<file_scenario, file_name, file_result>>
    /\ UNCHANGED exceptFile

\* the glob yields the file and executor.map hands it to process_file
GlobYields ==
    /\ pcFile = "glob"
    /\ Globbed(file_scenario, file_name)
    /\ pcFile' = "process_file"
    /\ UNCHANGED <<file_scenario, file_name, file_result>>
    /\ UNCHANGED exceptFile

\* process_file fails on the name
KeyRaises ==
    /\ pcFile = "process_file"
    /\ KeyOf(file_scenario, file_name).raised # "none"
    /\ file_result' = KeyOf(file_scenario, file_name)
    /\ pcFile' = "raised"
    /\ UNCHANGED <<file_scenario, file_name>>
    /\ UNCHANGED exceptFile

\* process_file takes the key from the name, reads a well-formed record and
\* returns the key with the metrics
KeyReturns ==
    /\ pcFile = "process_file"
    /\ KeyOf(file_scenario, file_name).raised = "none"
    /\ file_result' = KeyOf(file_scenario, file_name)
    /\ pcFile' = "returned"
    /\ UNCHANGED <<file_scenario, file_name>>
    /\ UNCHANGED exceptFile

NextFileName ==
    \/ GlobSkips
    \/ GlobYields
    \/ KeyRaises
    \/ KeyReturns

SpecFile == InitFile /\ [][NextFileName]_vars

\* the second dash-separated field of the stem is a decimal numeral
SecondFieldIsNumber(name) ==
    /\ Dashes(Stem(name)) # {}
    /\ IsDecimal(SecondField(Stem(name)))

\* the name has the form the batch expects
ExpectedName(sc, name) ==
    IF sc = "circle" THEN RE_fullmatch(name).matched ELSE SecondFieldIsNumber(name)

\* C13: process_file fails on every file whose name does not have the
\* expected form: it returns a grouping key only for a name that is exactly
\* num-robots-<N>-seed-<S>.json (circle) or whose second dash-separated
\* field is a number (junction).
C13_UnexpectedNameFails ==
    pcFile = "returned" => ExpectedName(file_scenario, file_name)

\* process_file of the circle batch returned the key 2 for the file
\* num-robots-2-seed-10.json.json
C13_KeyFromMalformedName ==
    /\ pcFile = "returned"
    /\ file_scenario = "circle"
    /\ file_name = NumRobotsLit \o <<"2">> \o SeedLit \o <<"1", "0">> \o DotJson \o DotJson
    /\ file_result.key = Num(2)

(***************************************************************************)
(* main of distance-travelled.py, of ldj.py and of                         *)
(* perpendicular-path-deviation.py on one run record: the per-robot loop,  *)
(* the per-robot table and the summary row of the statistics module.       *)
(***************************************************************************)
Scripts == {"distance-travelled.py", "ldj.py", "perpendicular-path-deviation.py"}

\* the scripts that print the per-robot table before the statistics
TableFirst == {"distance-travelled.py", "ldj.py"}

\* data['robots'] of the record given to a script, an empty one included
StatsRecords == UNION {[1..n -> RobotData] : n \in 0..MaxRobots}

\* the body of the loop of main for one robot: the exception it raises and
\* the value it computes
PerRobot(sc, d) ==
    IF sc = "distance-travelled.py"
    THEN [raised |-> "none", value |-> DistanceTravelledFrom(d.positions, 1)]
    ELSE IF sc = "ldj.py" THEN LdjByRobot[d]
    ELSE DeviationByRobot[d]

\* d, metric or rmse, as stored for the robot
StoredValue(res) == IF "rmse" \in DOMAIN res THEN res.rmse ELSE res.value

\* the keys of the summary row, in the order of dict(robots=N, mean=mean, ...)
StatsKeys == <<"robots", "mean", "median", "largest", "smallest", "variance", "stdev">>

\* only statistics.mean refusing its data: no data point at all
MeanFails(n) == n < 1

\* statistics.mean raises StatisticsError for no data point and
\* statistics.variance for fewer than two
StatisticsFails(n) == n < 2

InitStats ==
    /\ ParkedProj
    /\ ParkedDev
    /\ ParkedJunction
    /\ ParkedBatch
    /\ ParkedLdj
    /\ ParkedRuns
    /\ ParkedFile
    /\ script \in Scripts
    /\ record \in StatsRecords
    /\ of_each_robot = <<>>
    /\ printed = <<>>
    /\ stats = <<>>
    /\ pcStats = "loop"

\* one pass of for robot_id, robot_data in data['robots'].items()
StatsRobot ==
    /\ pcStats = "loop"
    /\ Len(of_each_robot) < Len(record)
    /\ \E res \in {PerRobot(script, record[Len(of_each_robot) + 1])} :
           /\ res.raised = "none"
           /\ of_each_robot' = Append(of_each_robot, StoredValue(res))
    /\ UNCHANGED <<script, record, printed, stats, pcStats>>
    /\ UNCHANGED exceptStats

\* the pass in which the body raises: the exception leaves main
StatsRobotRaise ==
    /\ pcStats = "loop"
    /\ Len(of_each_robot) < Len(record)
    /\ \E res \in {PerRobot(script, record[Len(of_each_robot) + 1])} :
           /\ res.raised # "none"
           /\ pcStats' = res.raised
    /\ UNCHANGED <<script, record, of_each_robot, printed, stats>>
    /\ UNCHANGED exceptStats

\* the loop is over: distance-travelled.py and ldj.py print the per-robot
\* table here, perpendicular-path-deviation.py goes on to the statistics
StatsLoopEnd ==
    /\ pcStats = "loop"
    /\ Len(of_each_robot) = Len(record)
    /\ printed' = IF script \in TableFirst THEN Append(printed, "table") ELSE printed
    /\ pcStats' = "statistics"
    /\ UNCHANGED <<script, record, of_each_robot, stats>>
    /\ UNCHANGED exceptStats

\* mean, median, max, min, variance: StatisticsError leaves main
StatsRaise ==
    /\ pcStats = "statistics"
    /\ StatisticsFails(Len(of_each_robot))
    /\ pcStats' = "StatisticsError"
    /\ UNCHANGED <<script, record, of_each_robot, printed, stats>>
    /\ UNCHANGED exceptStats

\* the statistics, stats = dict(robots=N, ...), the per-robot table of
\* perpendicular-path-deviation.py, and print(tabulate([stats], ...))
StatsRow ==
    /\ pcStats = "statistics"
    /\ ~StatisticsFails(Len(of_each_robot))
    /\ stats' = [robots |-> Len(of_each_robot), keys |-> StatsKeys]
    /\ printed' = (IF script \in TableFirst THEN printed ELSE Append(printed, "table"))
                      \o <<"stats">>
    /\ pcStats' = "done"
    /\ UNCHANGED <<script, record, of_each_robot>>
    /\ UNCHANGED exceptStats

NextStats == StatsRobot \/ StatsRobotRaise \/ StatsLoopEnd \/ StatsRaise \/ StatsRow

SpecStats == InitStats /\ [][NextStats]_vars

Printed(what) == \E i \in 1..Len(printed) : printed[i] = what

\* C23: the summary of the three scripts needs at least two robots.  For a
\* record with exactly one robot no summary row is ever computed or printed
\* and main never completes; when the statistics are reached they fail with
\* StatisticsError, and by then distance-travelled.py and ldj.py have
\* printed the per-robot table while perpendicular-path-deviation.py has
\* printed nothing.  A completed run has at least two robots, all in the row.
C23_OneRobotNoSummaryRow ==
    /\ (Len(record) = 1 /\ pcStats # "idle")
           => /\ stats = <<>>
              /\ ~Printed("stats")
              /\ pcStats # "done"
              /\ pcStats = "StatisticsError"
                     => /\ Len(of_each_robot) = 1
                        /\ script \in TableFirst => printed = <<"table">>
                        /\ script \notin TableFirst => printed = <<>>
    /\ pcStats = "done"
           => /\ Len(record) >= 2
              /\ stats.robots = Len(record)
              /\ printed = <<"table", "stats">>

\* C23 witness: ldj.py has printed the table of a one-robot record and
\* failed in the statistics.
C23_TablePrintedThenStatisticsError ==
    /\ script = "ldj.py"
    /\ Len(record) = 1
    /\ pcStats = "StatisticsError"
    /\ printed = <<"table">>
    /\ stats = <<>>

\* perpendicular-path-deviation.py has failed in the statistics of a
\* one-robot record with nothing printed
C23_NothingPrintedThenStatisticsError ==
    /\ script = "perpendicular-path-deviation.py"
    /\ Len(record) = 1
    /\ pcStats = "StatisticsError"
    /\ printed = <<>>

====
